---- MODULE Spec2Model ----
(***************************************************************************)
(* VirtualTextEditor: the copy-on-write overlay buffer (VirtualBuffer) of  *)
(* src/vted.py over an indexed file, with its cursor and selection, and    *)
(* the command-based undo stack of src/revite/undo_redo_feature.py.        *)
(*                                                                         *)
(* A string is a sequence of one-character strings; a Python dict is a     *)
(* function whose domain is its key set; a Python list is a sequence       *)
(* (0-based indices of the source are shifted by one where a sequence is   *)
(* indexed).                                                               *)
(***************************************************************************)
EXTENDS Integers, Sequences, FiniteSets, TLC

VARIABLES file, edits, inserted_lines, deleted_lines, line_offsets,
          cursor_line, cursor_col, selection,
          undo_stack, redo_stack, is_doing_undo, now, pre_state, undone_run,
          pc, entry,
          mm, encoding, index,
          counts, chunk_sums, total_visual_lines, chunk_size,
          ctrl, search, opening,
          ref_lines, net_delta, last_op, ops

vars == <<file, edits, inserted_lines, deleted_lines, line_offsets,
          cursor_line, cursor_col, selection,
          undo_stack, redo_stack, is_doing_undo, now, pre_state, undone_run,
          pc, entry,
          mm, encoding, index,
          counts, chunk_sums, total_visual_lines, chunk_size,
          ctrl, search, opening,
          ref_lines, net_delta, last_op, ops>>

\* ------------------------------------------------------------------------
\* Bounds of the model
\* ------------------------------------------------------------------------
\* the largest chunk_size a search is started with, in lines
MaxChunk == 2

\* number of mutating calls explored in one behaviour
MaxOps == 2

\* length of the files indexed, after their byte-order marker
MaxBody == 4

\* number of calls made to a visual line manager in one behaviour
MaxVisualOps == 2

\* a chunk size that splits the documents of the model into several chunks
SmallChunk == 2

\* number of calls made to the undo stack in one behaviour
MaxCalls == 4

\* max_size of the undo stack driven by those calls
Depth == 2

\* a line or column argument far outside any document of the model
Far == 99

\* the line-break character
NL == "\n"

\* texts handed to insert_text: one segment, two segments, three segments
Texts == { <<"X">>, <<"X", NL, "Y">>, <<NL, NL>> }

\* physical files (as the lines IndexedFile.__getitem__ decodes); the
\* scenario file [alpha, beta, gamma] is abbreviated to one character a line
FileABG == << <<"a">>, <<"b">>, <<"g">> >>
FileOne == << <<"p", "q">> >>
Files == { FileABG, FileOne }

\* ------------------------------------------------------------------------
\* Python primitives
\* ------------------------------------------------------------------------
Min(a, b) == IF a < b THEN a ELSE b
Max(a, b) == IF a > b THEN a ELSE b

\* a slice bound as Python normalises it for a sequence of length n
PyIdx(i, n) == IF i < 0 THEN Max(0, n + i) ELSE Min(i, n)

\* s[i:j]
Slice(s, i, j) ==
    LET a == PyIdx(i, Len(s))
        b == PyIdx(j, Len(s))
    IN  IF a >= b THEN << >> ELSE SubSeq(s, a + 1, b)

\* s[:c] and s[c:]
Prefix(s, c) == Slice(s, 0, c)
Suffix(s, c) == Slice(s, c, Len(s))

\* text.split("\n")
RECURSIVE split(_)
split(text) ==
    IF \A i \in 1..Len(text) : text[i] # NL
    THEN << text >>
    ELSE LET i == CHOOSE i \in 1..Len(text) :
                     text[i] = NL /\ \A j \in 1..(i - 1) : text[j] # NL
         IN  << SubSeq(text, 1, i - 1) >> \o split(SubSeq(text, i + 1, Len(text)))

\* '\n'.join(lines)
RECURSIVE join(_)
join(lines) ==
    IF lines = << >> THEN << >>
    ELSE IF Len(lines) = 1 THEN lines[1]
    ELSE lines[1] \o << NL >> \o join(Tail(lines))

\* bisect.bisect_right(a, x, lo, hi) and bisect.bisect_left(a, x, lo, hi),
\* 0-based over the sequence a
RECURSIVE bisect_right(_, _, _, _)
bisect_right(a, x, lo, hi) ==
    IF lo >= hi THEN lo
    ELSE LET mid == (lo + hi) \div 2
         IN  IF x < a[mid + 1] THEN bisect_right(a, x, lo, mid)
                               ELSE bisect_right(a, x, mid + 1, hi)

RECURSIVE bisect_left(_, _, _, _)
bisect_left(a, x, lo, hi) ==
    IF lo >= hi THEN lo
    ELSE LET mid == (lo + hi) \div 2
         IN  IF a[mid + 1] < x THEN bisect_left(a, x, mid + 1, hi)
                               ELSE bisect_left(a, x, lo, mid)

\* d[k] = v on a dict
DictSet(d, k, v) == [x \in (DOMAIN d) \cup {k} |-> IF x = k THEN v ELSE d[x]]

\* A renumbering that forgets to move the keys above the edited lines.
Renumber_unmoved(d, keepMax, dropMax, delta) ==
    LET kept  == { k \in DOMAIN d : k <= keepMax }
        moved == { k \in DOMAIN d : k > dropMax }
    IN  [ j \in kept \cup moved |-> d[j] ]

\* The renumbering loops of the structural edits: keys up to keepMax stay,
\* keys in keepMax+1..dropMax are skipped, keys above dropMax move by delta.
Renumber(d, keepMax, dropMax, delta) ==
    LET kept  == { k \in DOMAIN d : k <= keepMax }
        moved == { k \in DOMAIN d : k > dropMax }
    IN  [ j \in kept \cup { k + delta : k \in moved } |->
            IF j \in kept THEN d[j] ELSE d[j - delta] ]

RenumberSet(S, keepMax, dropMax, delta) ==
    { k \in S : k <= keepMax } \cup { k + delta : k \in { x \in S : x > dropMax } }

\* ------------------------------------------------------------------------
\* IndexedFile
\* ------------------------------------------------------------------------
total_lines(f) == Len(f)

\* IndexedFile.__getitem__
file_getitem(f, line) ==
    IF line < 0 \/ line >= total_lines(f) THEN << >> ELSE f[line + 1]

\* ------------------------------------------------------------------------
\* Selection
\* ------------------------------------------------------------------------
\* Selection.__init__ / Selection.clear
selection_clear ==
    [ start_line |-> -1, start_col |-> -1, end_line |-> -1, end_col |-> -1,
      active |-> FALSE, selecting_with_keyboard |-> FALSE ]

set_start(sel, line, col) ==
    [ sel EXCEPT !.start_line = line, !.start_col = col,
                 !.end_line = line, !.end_col = col, !.active = TRUE ]

set_end(sel, line, col) ==
    [ sel EXCEPT !.end_line = line, !.end_col = col,
                 !.active = (sel.start_line # line \/ sel.start_col # col) ]

has_selection(sel) ==
    sel.active /\ (sel.start_line # sel.end_line \/ sel.start_col # sel.end_col)

\* A get_bounds that returns the endpoints in the order they were set.
get_bounds_as_set(sel) ==
    << sel.start_line, sel.start_col, sel.end_line, sel.end_col >>

\* get_bounds of an active selection: <<start_line, start_col, end_line, end_col>>
get_bounds(sel) ==
    IF sel.start_line < sel.end_line
    THEN << sel.start_line, sel.start_col, sel.end_line, sel.end_col >>
    ELSE IF sel.start_line > sel.end_line
    THEN << sel.end_line, sel.end_col, sel.start_line, sel.start_col >>
    ELSE IF sel.start_col <= sel.end_col
    THEN << sel.start_line, sel.start_col, sel.end_line, sel.end_col >>
    ELSE << sel.end_line, sel.end_col, sel.start_line, sel.start_col >>

\* ------------------------------------------------------------------------
\* VirtualBuffer: the buffer as a record b of its fields
\* ------------------------------------------------------------------------
Buf == [ file |-> file, edits |-> edits, inserted_lines |-> inserted_lines,
         deleted_lines |-> deleted_lines, line_offsets |-> line_offsets,
         cursor_line |-> cursor_line, cursor_col |-> cursor_col,
         selection |-> selection ]

\* VirtualBuffer.load
load(f) ==
    [ file |-> f, edits |-> << >>, inserted_lines |-> << >>,
      deleted_lines |-> {}, line_offsets |-> << >>,
      cursor_line |-> 0, cursor_col |-> 0, selection |-> selection_clear ]

offset_keys(offs) == [ i \in 1..Len(offs) |-> offs[i][1] ]

\* the live (last) definition of _logical_to_physical
_logical_to_physical(b, logical_line) ==
    IF b.line_offsets = << >> THEN logical_line
    ELSE LET keys == offset_keys(b.line_offsets)
             idx  == bisect_right(keys, logical_line, 0, Len(keys)) - 1
         IN  IF idx < 0 THEN logical_line
             ELSE logical_line - b.line_offsets[idx + 1][2]

total(b) ==
    LET base == total_lines(b.file)
    IN  IF b.line_offsets # << >>
        THEN base + b.line_offsets[Len(b.line_offsets)][2]
        ELSE base

get_line(b, ln) ==
    IF ln \in DOMAIN b.inserted_lines THEN b.inserted_lines[ln]
    ELSE IF ln \in DOMAIN b.edits THEN b.edits[ln]
    ELSE IF ln \in b.deleted_lines THEN << >>
    ELSE LET physical == _logical_to_physical(b, ln)
         IN  IF 0 <= physical /\ physical < total_lines(b.file)
             THEN file_getitem(b.file, physical) ELSE << >>

\* the live (last) definition of _add_offset, on the offset table offs
\* An offset table whose entries after the new one keep their old shift.
_add_offset_unpropagated(offs, at_line, delta) ==
    IF offs = << >> THEN << << at_line, delta >> >>
    ELSE
      LET keys == offset_keys(offs)
          pos  == bisect_left(keys, at_line, 0, Len(keys))
      IN  IF pos < Len(offs) /\ offs[pos + 1][1] = at_line
          THEN [ offs EXCEPT ![pos + 1] = << at_line, offs[pos + 1][2] + delta >> ]
          ELSE
            LET prev_offset == IF pos > 0 THEN offs[pos][2] ELSE 0
            IN  SubSeq(offs, 1, pos) \o << << at_line, prev_offset + delta >> >>
                \o SubSeq(offs, pos + 1, Len(offs))

_add_offset(offs, at_line, delta) ==
    IF offs = << >> THEN << << at_line, delta >> >>
    ELSE
      LET keys == offset_keys(offs)
          pos  == bisect_left(keys, at_line, 0, Len(keys))
      IN  IF pos < Len(offs) /\ offs[pos + 1][1] = at_line
          THEN [ i \in 1..Len(offs) |->
                   IF i >= pos + 1 THEN << offs[i][1], offs[i][2] + delta >>
                   ELSE offs[i] ]
          ELSE
            LET prev_offset == IF pos > 0 THEN offs[pos][2] ELSE 0
                ins == SubSeq(offs, 1, pos) \o << << at_line, prev_offset + delta >> >>
                       \o SubSeq(offs, pos + 1, Len(offs))
            IN  [ i \in 1..Len(ins) |->
                    IF i > pos + 1 THEN << ins[i][1], ins[i][2] + delta >>
                    ELSE ins[i] ]

\* self.inserted_lines[ln] = s if ln is an inserted line, else self.edits[ln] = s
set_line(b, ln, s) ==
    IF ln \in DOMAIN b.inserted_lines
    THEN [ b EXCEPT !.inserted_lines = DictSet(b.inserted_lines, ln, s) ]
    ELSE [ b EXCEPT !.edits = DictSet(b.edits, ln, s) ]

\* A set_cursor that clamps to the end of the document and of the line only.
set_cursor_no_floor(b, ln0, col0, extend_selection) ==
    LET ln   == Min(ln0, total(b) - 1)
        line == get_line(b, ln)
        col  == Min(col0, Len(line))
        sel  == IF extend_selection
                THEN set_end(IF ~b.selection.active
                             THEN set_start(b.selection, b.cursor_line, b.cursor_col)
                             ELSE b.selection, ln, col)
                ELSE IF ~b.selection.selecting_with_keyboard
                     THEN selection_clear ELSE b.selection
    IN  [ b EXCEPT !.selection = sel, !.cursor_line = ln, !.cursor_col = col ]

\* A set_cursor that opens a new anchor at every extending move.
set_cursor_reanchoring(b, ln0, col0, extend_selection) ==
    LET ln   == Max(0, Min(ln0, total(b) - 1))
        line == get_line(b, ln)
        col  == Max(0, Min(col0, Len(line)))
        sel  == IF extend_selection
                THEN set_end(set_start(b.selection, b.cursor_line, b.cursor_col), ln, col)
                ELSE IF ~b.selection.selecting_with_keyboard
                     THEN selection_clear ELSE b.selection
    IN  [ b EXCEPT !.selection = sel, !.cursor_line = ln, !.cursor_col = col ]

set_cursor(b, ln0, col0, extend_selection) ==
    LET ln   == Max(0, Min(ln0, total(b) - 1))
        line == get_line(b, ln)
        col  == Max(0, Min(col0, Len(line)))
        sel  == IF extend_selection
                THEN set_end(IF ~b.selection.active
                             THEN set_start(b.selection, b.cursor_line, b.cursor_col)
                             ELSE b.selection, ln, col)
                ELSE IF ~b.selection.selecting_with_keyboard
                     THEN selection_clear ELSE b.selection
    IN  [ b EXCEPT !.selection = sel, !.cursor_line = ln, !.cursor_col = col ]

\* A select_all that leaves the cursor one column past the last line's end.
select_all_past_end(b) ==
    LET last_line == total(b) - 1
        last_line_text == get_line(b, last_line)
    IN  [ b EXCEPT !.selection = set_end(set_start(b.selection, 0, 0),
                                         last_line, Len(last_line_text)),
                   !.cursor_line = last_line,
                   !.cursor_col = Len(last_line_text) + 1 ]

\* VirtualBuffer.select_all
select_all(b) ==
    LET last_line == total(b) - 1
        last_line_text == get_line(b, last_line)
    IN  [ b EXCEPT !.selection = set_end(set_start(b.selection, 0, 0),
                                         last_line, Len(last_line_text)),
                   !.cursor_line = last_line,
                   !.cursor_col = Len(last_line_text) ]

\* InputController.start_drag on the buffer b (the controller's fields are
\* set by the action)
start_drag(b, ln, col) ==
    [ set_cursor(b, ln, col, FALSE) EXCEPT
        !.selection = set_end(set_start(set_cursor(b, ln, col, FALSE).selection,
                                        ln, col), ln, col) ]

\* InputController.update_drag
update_drag(c, b, ln, col) ==
    IF c.dragging
    THEN set_cursor([ b EXCEPT !.selection = set_end(b.selection, ln, col) ],
                    ln, col, TRUE)
    ELSE b

\* delete_selection past its early return: the selection is not empty
delete_selected(b) ==
      LET bd         == get_bounds(b.selection)
          start_line == bd[1]
          start_col  == bd[2]
          end_line   == bd[3]
          end_col    == bd[4]
          b1 ==
            IF start_line = end_line
            THEN LET line == get_line(b, start_line)
                 IN  set_line(b, start_line,
                              Prefix(line, start_col) \o Suffix(line, end_col))
            ELSE
              LET new_line == Prefix(get_line(b, start_line), start_col)
                              \o Suffix(get_line(b, end_line), end_col)
                  lines_deleted == end_line - start_line
                  new_ins == Renumber(b.inserted_lines, start_line - 1, end_line, -lines_deleted)
                  new_ed  == Renumber(b.edits, start_line - 1, end_line, -lines_deleted)
                  new_del == RenumberSet(b.deleted_lines, start_line - 1, end_line, -lines_deleted)
              IN  [ b EXCEPT
                      !.inserted_lines =
                          IF start_line \in DOMAIN b.inserted_lines
                          THEN DictSet(new_ins, start_line, new_line) ELSE new_ins,
                      !.edits =
                          IF start_line \in DOMAIN b.inserted_lines
                          THEN new_ed ELSE DictSet(new_ed, start_line, new_line),
                      !.deleted_lines = new_del,
                      !.line_offsets = _add_offset(b.line_offsets, start_line + 1, -lines_deleted) ]
      IN  [ b1 EXCEPT !.cursor_line = start_line, !.cursor_col = start_col,
                      !.selection = selection_clear ]

\* A delete_selection that clears the selection mark before looking at it.
delete_selection_unguarded(b) ==
    IF ~has_selection(b.selection) THEN [ b EXCEPT !.selection = selection_clear ]
    ELSE delete_selected(b)

delete_selection(b) ==
    IF ~has_selection(b.selection) THEN b
    ELSE delete_selected(b)

\* what delete_selection() returns, and whether it emits "changed"
delete_selection_returns(b) == has_selection(b.selection)

delete_selection_emits(b) == has_selection(b.selection)

\* insert_text once the selection, if any, has been deleted
insert_at_cursor(b, text) ==
    LET ln    == b.cursor_line
        col   == b.cursor_col
        old   == get_line(b, ln)
        parts == split(text)
    IN  IF Len(parts) = 1
        THEN [ set_line(b, ln, Prefix(old, col) \o text \o Suffix(old, col))
                 EXCEPT !.cursor_col = b.cursor_col + Len(text) ]
        ELSE
          LET first  == parts[1]
              last   == parts[Len(parts)]
              middle == SubSeq(parts, 2, Len(parts) - 1)
              left_part  == Prefix(old, col) \o first
              right_part == last \o Suffix(old, col)
              lines_to_insert == Len(parts) - 1
              new_ins == Renumber(b.inserted_lines, ln - 1, ln, lines_to_insert)
              new_ed  == Renumber(b.edits, ln - 1, ln, lines_to_insert)
              new_del == RenumberSet(b.deleted_lines, ln - 1, ln - 1, lines_to_insert)
              ins1 == IF ln \in DOMAIN b.inserted_lines
                      THEN DictSet(new_ins, ln, left_part) ELSE new_ins
              ins2 == [ j \in (DOMAIN ins1) \cup { ln + i : i \in 1..Len(middle) } |->
                          IF j \in { ln + i : i \in 1..Len(middle) }
                          THEN middle[j - ln] ELSE ins1[j] ]
          IN  [ b EXCEPT
                  !.inserted_lines = DictSet(ins2, ln + lines_to_insert, right_part),
                  !.edits = IF ln \in DOMAIN b.inserted_lines
                            THEN new_ed ELSE DictSet(new_ed, ln, left_part),
                  !.deleted_lines = new_del,
                  !.line_offsets = _add_offset(b.line_offsets, ln + 1, lines_to_insert),
                  !.cursor_line = ln + lines_to_insert,
                  !.cursor_col = Len(right_part) - Len(Suffix(old, col)) ]

insert_text(b0, text) ==
    insert_at_cursor(IF has_selection(b0.selection) THEN delete_selection(b0) ELSE b0,
                     text)

backspace(b) ==
    IF has_selection(b.selection) THEN delete_selection(b)
    ELSE
      LET ln   == b.cursor_line
          line == get_line(b, ln)
          col  == b.cursor_col
          b1 ==
            IF col = 0
            THEN IF ln > 0
                 THEN LET prev_line == get_line(b, ln - 1)
                          m == set_line(b, ln - 1, prev_line \o line)
                      IN  [ m EXCEPT
                              !.inserted_lines = Renumber(m.inserted_lines, ln - 1, ln, -1),
                              !.edits = Renumber(m.edits, ln - 1, ln, -1),
                              !.deleted_lines = RenumberSet(m.deleted_lines, ln - 1, ln, -1),
                              !.line_offsets = _add_offset(m.line_offsets, ln + 1, -1),
                              !.cursor_line = ln - 1,
                              !.cursor_col = Len(prev_line) ]
                 ELSE b
            ELSE [ set_line(b, ln, Slice(line, 0, col - 1) \o Suffix(line, col))
                     EXCEPT !.cursor_col = col - 1 ]
      IN  [ b1 EXCEPT !.selection = selection_clear ]

delete_key(b) ==
    IF has_selection(b.selection) THEN delete_selection(b)
    ELSE
      LET ln   == b.cursor_line
          line == get_line(b, ln)
          col  == b.cursor_col
          b1 ==
            IF col >= Len(line)
            THEN IF ln < total(b) - 1
                 THEN LET next_line == get_line(b, ln + 1)
                          m == set_line(b, ln, line \o next_line)
                      IN  [ m EXCEPT
                              !.inserted_lines = Renumber(m.inserted_lines, ln, ln + 1, -1),
                              !.edits = Renumber(m.edits, ln, ln + 1, -1),
                              !.deleted_lines = RenumberSet(m.deleted_lines, ln, ln + 1, -1),
                              !.line_offsets = _add_offset(m.line_offsets, ln + 2, -1) ]
                 ELSE b
            ELSE set_line(b, ln, Prefix(line, col) \o Suffix(line, col + 1))
      IN  [ b1 EXCEPT !.selection = selection_clear ]

\* An insert_newline that writes the new line without renumbering the overlays.
insert_newline_unrenumbered(b) ==
    IF has_selection(b.selection) THEN delete_selection(b)
    ELSE
      LET ln    == b.cursor_line
          col   == b.cursor_col
          old   == get_line(b, ln)
          m     == set_line(b, ln, Prefix(old, col))
      IN  [ m EXCEPT
              !.inserted_lines = DictSet(m.inserted_lines, ln + 1, Suffix(old, col)),
              !.line_offsets = _add_offset(m.line_offsets, ln + 1, 1),
              !.cursor_line = ln + 1,
              !.cursor_col = 0,
              !.selection = selection_clear ]

\* the live (last) definition of insert_newline
insert_newline(b) ==
    IF has_selection(b.selection) THEN delete_selection(b)
    ELSE
      LET ln    == b.cursor_line
          col   == b.cursor_col
          old   == get_line(b, ln)
          left  == Prefix(old, col)
          right == Suffix(old, col)
          m     == set_line(b, ln, left)
      IN  [ m EXCEPT
              !.inserted_lines = DictSet(Renumber(m.inserted_lines, ln, ln, 1), ln + 1, right),
              !.edits = Renumber(m.edits, ln, ln, 1),
              !.deleted_lines = RenumberSet(m.deleted_lines, ln, ln, 1),
              !.line_offsets = _add_offset(m.line_offsets, ln + 1, 1),
              !.cursor_line = ln + 1,
              !.cursor_col = 0,
              !.selection = selection_clear ]

\* the document the buffer presents: get_line(0), ..., get_line(total()-1)
Lines(b) == [ i \in 1..Max(0, total(b)) |-> get_line(b, i - 1) ]

\* ------------------------------------------------------------------------
\* The same edits on a plain list of strings L (the reference document)
\* ------------------------------------------------------------------------
ListLine(L, n) == IF 0 <= n /\ n < Len(L) THEN L[n + 1] ELSE << >>

\* (a position outside the list leaves it as it is)
list_insert(L, ln, col, text) ==
    IF ln < 0 \/ ln >= Len(L) THEN L
    ELSE SubSeq(L, 1, ln)
         \o split(Prefix(ListLine(L, ln), col) \o text \o Suffix(ListLine(L, ln), col))
         \o SubSeq(L, ln + 2, Len(L))

list_delete(L, sl, sc, el, ec) ==
    IF sl < 0 \/ el < sl \/ el >= Len(L) THEN L
    ELSE SubSeq(L, 1, sl)
         \o << Prefix(ListLine(L, sl), sc) \o Suffix(ListLine(L, el), ec) >>
         \o SubSeq(L, el + 2, Len(L))

\* the reference edit matching a call made in buffer state b
list_delete_selection(L, b) ==
    IF has_selection(b.selection)
    THEN LET bd == get_bounds(b.selection)
         IN  list_delete(L, bd[1], bd[2], bd[3], bd[4])
    ELSE L

list_insert_text(L, b, text) ==
    IF has_selection(b.selection)
    THEN LET bd == get_bounds(b.selection)
         IN  list_insert(list_delete(L, bd[1], bd[2], bd[3], bd[4]), bd[1], bd[2], text)
    ELSE list_insert(L, b.cursor_line, b.cursor_col, text)

list_backspace(L, b) ==
    IF has_selection(b.selection) THEN list_delete_selection(L, b)
    ELSE IF b.cursor_col = 0
         THEN IF b.cursor_line > 0
              THEN list_delete(L, b.cursor_line - 1, Len(ListLine(L, b.cursor_line - 1)),
                               b.cursor_line, 0)
              ELSE L
         ELSE list_delete(L, b.cursor_line, b.cursor_col - 1, b.cursor_line, b.cursor_col)

list_delete_key(L, b) ==
    IF has_selection(b.selection) THEN list_delete_selection(L, b)
    ELSE IF b.cursor_col >= Len(ListLine(L, b.cursor_line))
         THEN IF b.cursor_line < Len(L) - 1
              THEN list_delete(L, b.cursor_line, Len(ListLine(L, b.cursor_line)),
                               b.cursor_line + 1, 0)
              ELSE L
         ELSE list_delete(L, b.cursor_line, b.cursor_col, b.cursor_line, b.cursor_col + 1)

list_insert_newline(L, b) ==
    IF has_selection(b.selection) THEN list_delete_selection(L, b)
    ELSE list_insert(L, b.cursor_line, b.cursor_col, << NL >>)

\* ------------------------------------------------------------------------
\* The line-count delta each call hands to _add_offset (0 when it makes no
\* structural change)
\* ------------------------------------------------------------------------
delete_selection_delta(b) ==
    IF has_selection(b.selection)
    THEN LET bd == get_bounds(b.selection) IN -(bd[3] - bd[1])
    ELSE 0

insert_text_delta(b, text) == delete_selection_delta(b) + (Len(split(text)) - 1)

backspace_delta(b) ==
    IF has_selection(b.selection) THEN delete_selection_delta(b)
    ELSE IF b.cursor_col = 0 /\ b.cursor_line > 0 THEN -1 ELSE 0

delete_key_delta(b) ==
    IF has_selection(b.selection) THEN delete_selection_delta(b)
    ELSE IF b.cursor_col >= Len(get_line(b, b.cursor_line))
            /\ b.cursor_line < total(b) - 1 THEN -1 ELSE 0

insert_newline_delta(b) ==
    IF has_selection(b.selection) THEN delete_selection_delta(b) ELSE 1

\* the buffer with the range (sl, sc)..(el, ec) selected
select_range(b, sl, sc, el, ec) ==
    [ b EXCEPT !.selection = set_end(set_start(b.selection, sl, sc), el, ec) ]

\* VirtualBuffer.get_selected_text
get_selected_text(b) ==
    IF ~has_selection(b.selection) THEN << >>
    ELSE LET bd == get_bounds(b.selection)
         IN  IF bd[1] = bd[3]
             THEN Slice(get_line(b, bd[1]), bd[2], bd[4])
             ELSE join(<< Suffix(get_line(b, bd[1]), bd[2]) >>
                       \o [ i \in 1..(bd[3] - bd[1] - 1) |-> get_line(b, bd[1] + i) ]
                       \o << Prefix(get_line(b, bd[3]), bd[4]) >>)

\* ------------------------------------------------------------------------
\* Undo commands (src/revite/undo_redo_feature.py)
\* ------------------------------------------------------------------------
\* the merge window of InsertCommand.merge, in seconds
MergeWindow == 2

\* UndoStack.__init__: the default maximum depth
max_size == 1000

\* seconds that may pass between two calls: inside or beyond the merge window
Elapsed == { 0, MergeWindow + 1 }

InsertCommand(line, col, text, cursor_after_line, cursor_after_col, timestamp) ==
    [ kind |-> "Insert", line |-> line, col |-> col, text |-> text, lines |-> << >>,
      cursor_after_line |-> cursor_after_line, cursor_after_col |-> cursor_after_col,
      timestamp |-> timestamp ]

DeleteCommand(line, col, text, restore_selection, timestamp) ==
    [ kind |-> "Delete", line |-> line, col |-> col, text |-> text,
      restore_selection |-> restore_selection, timestamp |-> timestamp ]

CompositeCommand(commands) == [ kind |-> "Composite", commands |-> commands ]

\* the end position <<line, col>> of a text that starts at (line, col)
text_end(line, col, text) ==
    LET text_lines == split(text)
    IN  IF Len(text_lines) = 1
        THEN << line, col + Len(text) >>
        ELSE << line + Len(text_lines) - 1, Len(text_lines[Len(text_lines)]) >>

\* the end position of an Insert command (its lines list when it has one)
insert_end(cmd) ==
    IF cmd.lines # << >>
    THEN IF Len(cmd.lines) = 1
         THEN << cmd.line, cmd.col + Len(cmd.lines[1]) >>
         ELSE << cmd.line + Len(cmd.lines) - 1, Len(cmd.lines[Len(cmd.lines)]) >>
    ELSE text_end(cmd.line, cmd.col, cmd.text)

\* InsertCommand.undo
InsertCommand_undo(cmd, b) ==
    LET e  == insert_end(cmd)
        b1 == select_range(b, cmd.line, cmd.col, e[1], e[2])
        b2 == delete_selection(b1)
    IN  [ b2 EXCEPT !.cursor_line = cmd.line, !.cursor_col = cmd.col ]

\* DeleteCommand.undo
DeleteCommand_undo(cmd, b) ==
    LET b1 == insert_text([ b EXCEPT !.cursor_line = cmd.line, !.cursor_col = cmd.col ],
                          cmd.text)
        e  == text_end(cmd.line, cmd.col, cmd.text)
    IN  IF cmd.restore_selection
        THEN select_range(b1, cmd.line, cmd.col, e[1], e[2])
        ELSE b1

\* cmd.undo(buffer); a Composite undoes its sub-commands in reverse order
RECURSIVE command_undo(_, _)
command_undo(cmd, b) ==
    IF cmd.kind = "Insert" THEN InsertCommand_undo(cmd, b)
    ELSE IF cmd.kind = "Delete" THEN DeleteCommand_undo(cmd, b)
    ELSE IF cmd.commands = << >> THEN b
    ELSE command_undo(
             CompositeCommand(SubSeq(cmd.commands, 1, Len(cmd.commands) - 1)),
             command_undo(cmd.commands[Len(cmd.commands)], b))

\* InsertCommand.redo
InsertCommand_redo(cmd, b) ==
    LET b1 == insert_text([ b EXCEPT !.cursor_line = cmd.line, !.cursor_col = cmd.col,
                                     !.selection = selection_clear ], cmd.text)
    IN  [ b1 EXCEPT !.cursor_line = cmd.cursor_after_line,
                    !.cursor_col = cmd.cursor_after_col ]

\* DeleteCommand.redo
DeleteCommand_redo(cmd, b) ==
    LET e == text_end(cmd.line, cmd.col, cmd.text)
    IN  delete_selection(select_range(b, cmd.line, cmd.col, e[1], e[2]))

\* A Composite that redoes its sub-commands last to first.
RECURSIVE command_redo_reversed(_, _)
command_redo_reversed(cmd, b) ==
    IF cmd.kind = "Insert" THEN InsertCommand_redo(cmd, b)
    ELSE IF cmd.kind = "Delete" THEN DeleteCommand_redo(cmd, b)
    ELSE IF cmd.commands = << >> THEN b
    ELSE command_redo_reversed(
             CompositeCommand(SubSeq(cmd.commands, 1, Len(cmd.commands) - 1)),
             command_redo_reversed(cmd.commands[Len(cmd.commands)], b))

\* cmd.redo(buffer); a Composite redoes its sub-commands in execution order
RECURSIVE command_redo(_, _)
command_redo(cmd, b) ==
    IF cmd.kind = "Insert" THEN InsertCommand_redo(cmd, b)
    ELSE IF cmd.kind = "Delete" THEN DeleteCommand_redo(cmd, b)
    ELSE IF cmd.commands = << >> THEN b
    ELSE command_redo(CompositeCommand(Tail(cmd.commands)),
                      command_redo(Head(cmd.commands), b))

\* str.isspace / str.isalnum on the characters of the model
isspace(ch) == ch \in { " ", NL }
isalnum(ch) == ch \in { "a", "b", "c", "d", "g", "o", "p", "q", "t", "X", "Y" }

\* group_type of InsertCommand.merge
group_type(txt) ==
    IF txt = << >> THEN 0
    ELSE IF \A i \in 1..Len(txt) : isspace(txt[i]) THEN 1
    ELSE IF (\A i \in 1..Len(txt) : isalnum(txt[i])) \/ txt = << "_" >> THEN 2
    ELSE 3

\* An InsertCommand.merge that merges across a whitespace boundary.
InsertCommand_merge_across_words(self, other) ==
    IF other.kind # "Insert" THEN << FALSE, self >>
    ELSE IF << other.line, other.col >> # insert_end(self) THEN << FALSE, self >>
    ELSE IF other.timestamp - self.timestamp > MergeWindow THEN << FALSE, self >>
    ELSE IF self.lines # << >> \/ other.lines # << >> THEN << FALSE, self >>
    ELSE IF \E i \in 1..Len(self.text) : self.text[i] = NL THEN << FALSE, self >>
    ELSE IF Len(self.text) > 50 THEN << FALSE, self >>
    ELSE << TRUE, [ self EXCEPT !.text = self.text \o other.text,
                                !.cursor_after_line = other.cursor_after_line,
                                !.cursor_after_col = other.cursor_after_col,
                                !.timestamp = other.timestamp ] >>

\* InsertCommand.merge(other): <<merged, self afterwards>>
InsertCommand_merge(self, other) ==
    IF other.kind # "Insert" THEN << FALSE, self >>
    ELSE IF << other.line, other.col >> # insert_end(self) THEN << FALSE, self >>
    ELSE IF other.timestamp - self.timestamp > MergeWindow THEN << FALSE, self >>
    ELSE IF self.lines # << >> \/ other.lines # << >> THEN << FALSE, self >>
    ELSE IF \E i \in 1..Len(self.text) : self.text[i] = NL THEN << FALSE, self >>
    ELSE IF group_type(<< self.text[Len(self.text)] >>) = 1
            /\ group_type(<< other.text[1] >>) # 1 THEN << FALSE, self >>
    ELSE IF Len(self.text) > 50 THEN << FALSE, self >>
    ELSE << TRUE, [ self EXCEPT !.text = self.text \o other.text,
                                !.cursor_after_line = other.cursor_after_line,
                                !.cursor_after_col = other.cursor_after_col,
                                !.timestamp = other.timestamp ] >>

\* DeleteCommand.merge(other): <<merged, self afterwards>>
DeleteCommand_merge(self, other) ==
    IF other.kind # "Delete" THEN << FALSE, self >>
    ELSE IF Len(split(other.text)) = 1
    THEN IF other.line = self.line /\ other.col + Len(other.text) = self.col
         THEN << TRUE, [ self EXCEPT !.col = other.col,
                                     !.text = other.text \o self.text,
                                     !.timestamp = other.timestamp ] >>
         ELSE IF other.line = self.line /\ other.col = self.col
         THEN << TRUE, [ self EXCEPT !.text = self.text \o other.text,
                                     !.timestamp = other.timestamp ] >>
         ELSE << FALSE, self >>
    ELSE << FALSE, self >>

\* top.merge(cmd)
command_merge(self, other) ==
    IF self.kind = "Insert" THEN InsertCommand_merge(self, other)
    ELSE IF self.kind = "Delete" THEN DeleteCommand_merge(self, other)
    ELSE << FALSE, self >>

\* the stack after add_command has pushed cmd: redo cleared (or kept), the
\* oldest command evicted beyond max_size (or kept)
push_command(st, cmd, clear_redo, evict) ==
    LET pushed == Append(st.undo_stack, cmd)
    IN  [ st EXCEPT
            !.undo_stack = IF evict /\ Len(pushed) > st.max_size THEN Tail(pushed)
                           ELSE pushed,
            !.redo_stack = IF clear_redo THEN << >> ELSE st.redo_stack ]

\* top.merge(cmd) of add_command: <<merged, the stack afterwards>>
merge_into_top(st, cmd) ==
    IF st.undo_stack = << >> THEN << FALSE, st >>
    ELSE LET m == command_merge(st.undo_stack[Len(st.undo_stack)], cmd)
         IN  << m[1], [ st EXCEPT !.undo_stack[Len(st.undo_stack)] = m[2] ] >>

\* An add_command that leaves the redo stack alone when it pushes.
add_command_keeps_redo(st, cmd) ==
    IF st.is_doing_undo THEN st
    ELSE IF merge_into_top(st, cmd)[1] THEN merge_into_top(st, cmd)[2]
    ELSE push_command(st, cmd, FALSE, TRUE)

\* An add_command that records while a command is being replayed.
add_command_unguarded(st, cmd) ==
    IF merge_into_top(st, cmd)[1] THEN merge_into_top(st, cmd)[2]
    ELSE push_command(st, cmd, TRUE, TRUE)

\* An add_command that never evicts.
add_command_unbounded(st, cmd) ==
    IF st.is_doing_undo THEN st
    ELSE IF merge_into_top(st, cmd)[1] THEN merge_into_top(st, cmd)[2]
    ELSE push_command(st, cmd, TRUE, FALSE)

\* UndoStack.add_command on the stack st = [undo_stack, redo_stack,
\* is_doing_undo, max_size]
add_command(st, cmd) ==
    IF st.is_doing_undo THEN st
    ELSE IF merge_into_top(st, cmd)[1] THEN merge_into_top(st, cmd)[2]
    ELSE push_command(st, cmd, TRUE, TRUE)

\* An undo() that forgets the command it pops.
undo_pop_forgetful(st) ==
    IF st.undo_stack = << >> THEN st
    ELSE [ st EXCEPT !.undo_stack = SubSeq(st.undo_stack, 1, Len(st.undo_stack) - 1),
                     !.is_doing_undo = TRUE ]

\* UndoStack.undo up to the application of the command: the command moved
\* to the redo stack and the flag set (nothing on an empty undo stack)
undo_pop(st) ==
    IF st.undo_stack = << >> THEN st
    ELSE [ st EXCEPT !.undo_stack = SubSeq(st.undo_stack, 1, Len(st.undo_stack) - 1),
                     !.redo_stack = Append(st.redo_stack,
                                           st.undo_stack[Len(st.undo_stack)]),
                     !.is_doing_undo = TRUE ]

\* A redo() that sets the flag before it looks at the redo stack.
redo_pop_unchecked(st) ==
    IF st.redo_stack = << >> THEN [ st EXCEPT !.is_doing_undo = TRUE ]
    ELSE [ st EXCEPT !.redo_stack = SubSeq(st.redo_stack, 1, Len(st.redo_stack) - 1),
                     !.undo_stack = Append(st.undo_stack,
                                           st.redo_stack[Len(st.redo_stack)]),
                     !.is_doing_undo = TRUE ]

\* A redo() that leaves the command it re-applies on the redo stack.
redo_pop_keeping(st) ==
    IF st.redo_stack = << >> THEN st
    ELSE [ st EXCEPT !.undo_stack = Append(st.undo_stack,
                                           st.redo_stack[Len(st.redo_stack)]),
                     !.is_doing_undo = TRUE ]

\* UndoStack.redo up to the application of the command
redo_pop(st) ==
    IF st.redo_stack = << >> THEN st
    ELSE [ st EXCEPT !.redo_stack = SubSeq(st.redo_stack, 1, Len(st.redo_stack) - 1),
                     !.undo_stack = Append(st.undo_stack,
                                           st.redo_stack[Len(st.redo_stack)]),
                     !.is_doing_undo = TRUE ]

\* the finally clause of undo() and redo()
replay_end(st) == [ st EXCEPT !.is_doing_undo = FALSE ]

\* ------------------------------------------------------------------------
\* The recording buffer: each primitive mutation wrapped as a command.  The
\* commands a call records (<< >> when it changes nothing), from the state b
\* the call is made in and the time ts of the call.
\* ------------------------------------------------------------------------
recorded_delete_selection(b, ts) ==
    IF has_selection(b.selection)
    THEN LET bd == get_bounds(b.selection)
         IN  << DeleteCommand(bd[1], bd[2], get_selected_text(b), TRUE, ts) >>
    ELSE << >>

recorded_insert_text(b, text, ts) ==
    LET nb  == insert_text(b, text)
        at  == IF has_selection(b.selection)
               THEN << get_bounds(b.selection)[1], get_bounds(b.selection)[2] >>
               ELSE << b.cursor_line, b.cursor_col >>
        ins == InsertCommand(at[1], at[2], text, nb.cursor_line, nb.cursor_col, ts)
    IN  IF has_selection(b.selection)
        THEN << CompositeCommand(recorded_delete_selection(b, ts) \o << ins >>) >>
        ELSE << ins >>

recorded_backspace(b, ts) ==
    IF has_selection(b.selection) THEN recorded_delete_selection(b, ts)
    ELSE IF b.cursor_col = 0
         THEN IF b.cursor_line > 0
              THEN << DeleteCommand(b.cursor_line - 1,
                                    Len(get_line(b, b.cursor_line - 1)), << NL >>, FALSE, ts) >>
              ELSE << >>
         ELSE << DeleteCommand(b.cursor_line, b.cursor_col - 1,
                               Slice(get_line(b, b.cursor_line), b.cursor_col - 1, b.cursor_col),
                               FALSE, ts) >>

recorded_delete_key(b, ts) ==
    IF has_selection(b.selection) THEN recorded_delete_selection(b, ts)
    ELSE IF b.cursor_col >= Len(get_line(b, b.cursor_line))
         THEN IF b.cursor_line < total(b) - 1
              THEN << DeleteCommand(b.cursor_line, b.cursor_col, << NL >>, FALSE, ts) >>
              ELSE << >>
         ELSE << DeleteCommand(b.cursor_line, b.cursor_col,
                               Slice(get_line(b, b.cursor_line), b.cursor_col, b.cursor_col + 1),
                               FALSE, ts) >>

recorded_insert_newline(b, ts) ==
    IF has_selection(b.selection) THEN recorded_delete_selection(b, ts)
    ELSE << InsertCommand(b.cursor_line, b.cursor_col, << NL >>, b.cursor_line + 1, 0, ts) >>

\* ------------------------------------------------------------------------
\* IndexedFile (src/vted.py): the mapped bytes mm, the detected encoding and
\* the table of line-start offsets.  A byte is a number 0..255.
\* ------------------------------------------------------------------------
\* the bytes detect_encoding peeks at
PeekSize == 4096

LF == 10

BOM_LE == << 255, 254 >>

BOM_BE == << 254, 255 >>

BOM_UTF8 == << 239, 187, 191 >>

\* bytes.startswith
startswith(data, prefix) ==
    Len(data) >= Len(prefix) /\ SubSeq(data, 1, Len(prefix)) = prefix

\* the zero bytes at the positions of data (0-based) of the given parity
zeros_at(data, parity) ==
    Cardinality({ i \in 0..(Len(data) - 1) : i % 2 = parity /\ data[i + 1] = 0 })

\* zeros / (len(data) / 2) > 0.4, in whole numbers
ratio_over_threshold(zeros, data) == 10 * 2 * zeros > 4 * Len(data)

\* IndexedFile.detect_encoding on the bytes read from the file; the division
\* by len(data) / 2 raises on an empty sample
detect_encoding(data) ==
    IF startswith(data, BOM_LE) THEN "utf-16le"
    ELSE IF startswith(data, BOM_BE) THEN "utf-16be"
    ELSE IF startswith(data, BOM_UTF8) THEN "utf-8-sig"
    ELSE IF Len(data) >= 4 /\ ratio_over_threshold(zeros_at(data, 1), data)
    THEN "utf-16le"
    ELSE IF Len(data) = 0 THEN "ZeroDivisionError"
    ELSE IF ratio_over_threshold(zeros_at(data, 0), data) THEN "utf-16be"
    ELSE "utf-8"

\* mm.find(pattern, pos): the first position >= pos where pattern starts, or -1
find(bytes, pattern, pos) ==
    LET hits == { i \in pos..(Len(bytes) - Len(pattern)) :
                    SubSeq(bytes, i + 1, i + Len(pattern)) = pattern }
    IN  IF hits = {} THEN -1 ELSE CHOOSE i \in hits : \A j \in hits : i <= j

\* the scanning loop of _index_utf8 and _index_utf16: the table after it
RECURSIVE scan_newlines(_, _, _, _)
scan_newlines(bytes, newline_bytes, pos, table) ==
    IF pos >= Len(bytes) THEN table
    ELSE IF find(bytes, newline_bytes, pos) = -1 THEN table
    ELSE scan_newlines(bytes, newline_bytes,
                       find(bytes, newline_bytes, pos) + Len(newline_bytes),
                       Append(table, find(bytes, newline_bytes, pos) + Len(newline_bytes)))

\* An index build that leaves the table as the scan left it.
record_file_end_skipped(table, total_size) == table

\* "Ensure file end is recorded"
record_file_end(table, total_size) ==
    IF table = << >> \/ table[Len(table)] # total_size
    THEN Append(table, total_size) ELSE table

_index_utf8(bytes) ==
    record_file_end(scan_newlines(bytes, << LF >>, 0, << 0 >>), Len(bytes))

\* the scan start of _index_utf16: past a byte-order marker
start_pos(bytes) ==
    IF Len(bytes) >= 2 /\ SubSeq(bytes, 1, 2) \in { BOM_LE, BOM_BE } THEN 2 ELSE 0

newline_bytes(enc) == IF enc = "utf-16le" THEN << LF, 0 >> ELSE << 0, LF >>

_index_utf16(bytes, enc) ==
    record_file_end(scan_newlines(bytes, newline_bytes(enc), start_pos(bytes),
                                  << start_pos(bytes) >>), Len(bytes))

\* IndexedFile.index_file: the offset table
index_file(bytes, enc) ==
    IF enc \in { "utf-16le", "utf-16be" } THEN _index_utf16(bytes, enc) ELSE _index_utf8(bytes)

\* VisualLineManager.CHUNK_SIZE
CHUNK_SIZE == 1000

\* IndexedFile.total_lines on the offset table
index_total_lines(table) == Len(table) - 1

\* ------------------------------------------------------------------------
\* VisualLineManager (src/test_visual_manager.py): the wrap count of every
\* logical line, the sum of every chunk of chunk_size lines and the total.
\* A manager is vm = [counts, chunk_sums, total_visual_lines, chunk_size].
\* ------------------------------------------------------------------------
RECURSIVE sum(_)
sum(seq) == IF seq = << >> THEN 0 ELSE Head(seq) + sum(Tail(seq))

\* (total_len + CHUNK_SIZE - 1) // CHUNK_SIZE
num_chunks(total_len, size) == (total_len + size - 1) \div size

\* VisualLineManager(total_logical_lines), with CHUNK_SIZE = size
VisualLineManager(total_logical_lines, size) ==
    [ counts |-> [ i \in 1..total_logical_lines |-> 1 ],
      chunk_sums |-> [ i \in 1..num_chunks(total_logical_lines, size) |->
                        Min((i - 1) * size + size, total_logical_lines) - (i - 1) * size ],
      total_visual_lines |-> total_logical_lines,
      chunk_size |-> size ]

\* A clamp that stores the count as it is given.
clamp_count_unclamped(visual_count) == visual_count

\* visual_count = min(255, max(1, visual_count))
clamp_count(visual_count) == Min(255, Max(1, visual_count))

\* VisualLineManager._rebuild_chunks
_rebuild_chunks(vm) ==
    [ vm EXCEPT
        !.chunk_sums = [ i \in 1..num_chunks(Len(vm.counts), vm.chunk_size) |->
                          sum(Slice(vm.counts, (i - 1) * vm.chunk_size,
                                    Min((i - 1) * vm.chunk_size + vm.chunk_size,
                                        Len(vm.counts)))) ],
        !.total_visual_lines = sum(vm.counts) ]

\* An update that adjusts the total and forgets the chunk sum.
update_total_only(vm, logical_line, visual_count) ==
    IF logical_line < 0 \/ logical_line >= Len(vm.counts) THEN vm
    ELSE IF vm.counts[logical_line + 1] = clamp_count(visual_count) THEN vm
    ELSE [ vm EXCEPT
             !.counts[logical_line + 1] = clamp_count(visual_count),
             !.total_visual_lines = @ + clamp_count(visual_count)
                                      - vm.counts[logical_line + 1] ]

\* VisualLineManager.update
update(vm, logical_line, visual_count) ==
    IF logical_line < 0 \/ logical_line >= Len(vm.counts) THEN vm
    ELSE IF vm.counts[logical_line + 1] = clamp_count(visual_count) THEN vm
    ELSE [ vm EXCEPT
             !.counts[logical_line + 1] = clamp_count(visual_count),
             !.chunk_sums =
                 IF logical_line \div vm.chunk_size < Len(vm.chunk_sums)
                 THEN [ @ EXCEPT ![(logical_line \div vm.chunk_size) + 1] =
                          @ + clamp_count(visual_count) - vm.counts[logical_line + 1] ]
                 ELSE @,
             !.total_visual_lines = @ + clamp_count(visual_count)
                                      - vm.counts[logical_line + 1] ]

\* array.insert(i, x)
array_insert(seq, i, x) ==
    SubSeq(seq, 1, PyIdx(i, Len(seq))) \o << x >>
        \o SubSeq(seq, PyIdx(i, Len(seq)) + 1, Len(seq))

\* for _ in range(count): counts.insert(logical_line, visual_count)
RECURSIVE insert_times(_, _, _, _)
insert_times(seq, logical_line, count, x) ==
    IF count <= 0 THEN seq
    ELSE insert_times(array_insert(seq, logical_line, x), logical_line, count - 1, x)

\* An insert that always appends the new lines.
insert_appending(vm, logical_line, count, visual_count) ==
    _rebuild_chunks([ vm EXCEPT !.counts =
        vm.counts \o [ i \in 1..count |-> clamp_count(visual_count) ] ])

\* VisualLineManager.insert
insert(vm, logical_line, count, visual_count) ==
    _rebuild_chunks([ vm EXCEPT !.counts =
        IF logical_line >= Len(vm.counts)
        THEN vm.counts \o [ i \in 1..count |-> clamp_count(visual_count) ]
        ELSE insert_times(vm.counts, logical_line, count, clamp_count(visual_count)) ])

\* A delete that removes one line whatever the count.
delete_single(vm, logical_line, count) ==
    IF logical_line < 0 \/ count <= 0 THEN vm
    ELSE _rebuild_chunks([ vm EXCEPT !.counts =
             Prefix(vm.counts, logical_line)
                 \o Suffix(vm.counts, Min(logical_line + 1, Len(vm.counts))) ])

\* VisualLineManager.delete
delete(vm, logical_line, count) ==
    IF logical_line < 0 \/ count <= 0 THEN vm
    ELSE _rebuild_chunks([ vm EXCEPT !.counts =
             Prefix(vm.counts, logical_line)
                 \o Suffix(vm.counts, Min(logical_line + count, Len(vm.counts))) ])

get_total_visual_lines(vm) == vm.total_visual_lines

\* A get_visual_offset that starts counting at the line's own chunk.
get_visual_offset_in_chunk(vm, logical_line) ==
    IF logical_line <= 0 THEN 0
    ELSE IF logical_line >= Len(vm.counts) THEN vm.total_visual_lines
    ELSE sum(Slice(vm.counts, (logical_line \div vm.chunk_size) * vm.chunk_size,
                   logical_line))

\* VisualLineManager.get_visual_offset
get_visual_offset(vm, logical_line) ==
    IF logical_line <= 0 THEN 0
    ELSE IF logical_line >= Len(vm.counts) THEN vm.total_visual_lines
    ELSE sum(SubSeq(vm.chunk_sums, 1, logical_line \div vm.chunk_size))
         + sum(Slice(vm.counts, (logical_line \div vm.chunk_size) * vm.chunk_size,
                     logical_line))

\* the chunk loop of get_logical_position: <<chunk_idx, current_visual>>
RECURSIVE walk_chunks(_, _, _, _)
walk_chunks(sums, chunk_idx, current_visual, visual_line_index) ==
    IF chunk_idx >= Len(sums) THEN << chunk_idx, current_visual >>
    ELSE IF current_visual + sums[chunk_idx + 1] > visual_line_index
    THEN << chunk_idx, current_visual >>
    ELSE walk_chunks(sums, chunk_idx + 1, current_visual + sums[chunk_idx + 1],
                     visual_line_index)

\* the line loop of get_logical_position
RECURSIVE walk_lines(_, _, _, _, _)
walk_lines(cnts, logical_line, end_limit, current_visual, visual_line_index) ==
    IF logical_line >= end_limit THEN << Len(cnts) - 1, 0 >>
    ELSE IF current_visual + cnts[logical_line + 1] > visual_line_index
    THEN << logical_line, visual_line_index - current_visual >>
    ELSE walk_lines(cnts, logical_line + 1, end_limit,
                    current_visual + cnts[logical_line + 1], visual_line_index)

\* A get_logical_position that scans from the start of the document.
get_logical_position_unchunked(vm, visual_line_index) ==
    IF visual_line_index < 0 THEN << 0, 0 >>
    ELSE IF visual_line_index >= vm.total_visual_lines
    THEN << Len(vm.counts) - 1,
            IF vm.counts # << >> THEN Max(0, vm.counts[Len(vm.counts)] - 1) ELSE 0 >>
    ELSE walk_lines(vm.counts, 0, Min(vm.chunk_size, Len(vm.counts)), 0,
                    visual_line_index)

\* VisualLineManager.get_logical_position: <<logical_line, offset in the line>>
get_logical_position(vm, visual_line_index) ==
    IF visual_line_index < 0 THEN << 0, 0 >>
    ELSE IF visual_line_index >= vm.total_visual_lines
    THEN << Len(vm.counts) - 1,
            IF vm.counts # << >> THEN Max(0, vm.counts[Len(vm.counts)] - 1) ELSE 0 >>
    ELSE walk_lines(vm.counts,
                    walk_chunks(vm.chunk_sums, 0, 0, visual_line_index)[1] * vm.chunk_size,
                    Min(walk_chunks(vm.chunk_sums, 0, 0, visual_line_index)[1]
                            * vm.chunk_size + vm.chunk_size, Len(vm.counts)),
                    walk_chunks(vm.chunk_sums, 0, 0, visual_line_index)[2],
                    visual_line_index)

\* ------------------------------------------------------------------------
\* The state machine: one action per call on the buffer
\* ------------------------------------------------------------------------
\* the call that produced the current state
\* (clamped: a set_cursor call whose arguments lay outside the document)
Op(name, text) == [ name |-> name, text |-> text, clamped |-> FALSE ]

SetBuf(nb) ==
    /\ file' = nb.file
    /\ edits' = nb.edits
    /\ inserted_lines' = nb.inserted_lines
    /\ deleted_lines' = nb.deleted_lines
    /\ line_offsets' = nb.line_offsets
    /\ cursor_line' = nb.cursor_line
    /\ cursor_col' = nb.cursor_col
    /\ selection' = nb.selection

Stack == [ undo_stack |-> undo_stack, redo_stack |-> redo_stack,
           is_doing_undo |-> is_doing_undo, max_size |-> max_size ]

SetStack(st) ==
    /\ undo_stack' = st.undo_stack
    /\ redo_stack' = st.redo_stack
    /\ is_doing_undo' = st.is_doing_undo

\* the undo engine and its bookkeeping, untouched by a call
\* the indexed file and the visual line manager, which no call to the
\* buffer or to the undo stack touches
beside_vars == << mm, encoding, index, counts, chunk_sums, total_visual_lines,
                 chunk_size, ctrl, search, opening >>

undo_vars == << undo_stack, redo_stack, is_doing_undo, now, pre_state, undone_run,
               pc, entry, beside_vars >>

\* pc: where the engine stands, "idle" or inside undo() or redo() between
\* setting and clearing is_doing_undo; entry: the stacks and the buffer as
\* the last undo() or redo() call found them, and whether the command's
\* application raised
NoCall == [ name |-> "none", stack |-> << >>, buf |-> << >>, raised |-> FALSE ]

\* the document and the cursor, as the undo law compares them
Snapshot(b) == [ lines |-> Lines(b), cursor_line |-> b.cursor_line,
                 cursor_col |-> b.cursor_col ]

\* arguments tried for set_cursor: every position of the document, and
\* positions before its start and beyond its end
LineArgs(b) == (-1 .. (total(b) - 1)) \cup { Far }
ColArgs(b, ln) ==
    (-1 .. Len(get_line(b, Max(0, Min(ln, total(b) - 1))))) \cup { Far }

\* an IndexedFile constructed on the bytes a two-byte file holds, not yet
\* indexed
InitIndexedFile ==
    /\ mm = << 5, LF >>
    /\ encoding = detect_encoding(Prefix(mm, PeekSize))
    /\ index = << >>

\* VisualLineManager()
InitVisual ==
    /\ counts = << >>
    /\ chunk_sums = << >>
    /\ total_visual_lines = 0
    /\ chunk_size = CHUNK_SIZE

\* the buffer loaded from a file, with an empty undo stack
InitBuffer ==
    /\ file \in Files
    /\ edits = load(file).edits
    /\ inserted_lines = load(file).inserted_lines
    /\ deleted_lines = load(file).deleted_lines
    /\ line_offsets = load(file).line_offsets
    /\ cursor_line = load(file).cursor_line
    /\ cursor_col = load(file).cursor_col
    /\ selection = load(file).selection
    /\ undo_stack = << >>
    /\ redo_stack = << >>
    /\ is_doing_undo = FALSE
    /\ now = 0
    /\ pre_state = Snapshot(load(file))
    /\ pc = "idle"
    /\ entry = NoCall
    /\ undone_run = 0
    /\ ref_lines = file
    /\ net_delta = 0
    /\ last_op = Op("load", << >>)
    /\ ops = 0

\* InputController.__init__
InitController ==
    ctrl = [ dragging |-> FALSE, drag_start_line |-> -1, drag_start_col |-> -1 ]

\* no search started and no file being opened
NoSearch ==
    [ started |-> FALSE, query_text |-> << >>, max_matches |-> 0, chunk_size |-> 0,
      total_lines |-> 0, matches |-> << >>, current_line |-> 0, cancelled |-> FALSE,
      idle_id |-> FALSE, scheduled |-> FALSE, cancel_is_noop |-> TRUE,
      progress_calls |-> 0, complete_calls |-> 0 ]

NoOpening ==
    [ started |-> FALSE, dialog |-> "none", thread |-> "none", idle |-> << >>,
      loaded |-> FALSE, table_at_load |-> << >>, loaded_while_indexing |-> FALSE,
      read_while_indexing |-> FALSE ]

InitWindow == InitController /\ search = NoSearch /\ opening = NoOpening

Init == InitBuffer /\ InitIndexedFile /\ InitVisual /\ InitWindow

\* undone_run counts the undo() calls made in a row right after the recorded
\* calls since load: 0 after load or a recorded call, -2 once the cursor has
\* been moved since, and -1 for good once an undo() has been followed by
\* anything but another undo(), or a cursor move by an undo()
RunAfterMove == IF undone_run \in { 0, -2 } THEN -2 ELSE -1

RunAfterEdit == IF undone_run \in { 0, -2 } THEN 0 ELSE -1

\* a call that moves the cursor; none is made after the last mutating call
\* of a behaviour
MoveCursor(ln, col, ext) ==
    /\ ops < MaxOps
    /\ SetBuf(set_cursor(Buf, ln, col, ext))
    /\ last_op' = [ Op("set_cursor", << >>) EXCEPT
                      !.clamped = (ln < 0 \/ ln >= total(Buf) \/ col < 0
                                   \/ col > Len(get_line(Buf, ln))) ]
    /\ UNCHANGED << ref_lines, net_delta, ops, undo_stack, redo_stack,
                    is_doing_undo, now, pre_state, pc, entry, beside_vars >>

SetCursor(ln, col, ext) ==
    /\ MoveCursor(ln, col, ext)
    /\ UNCHANGED undone_run

SelectAll ==
    /\ ops < MaxOps
    /\ SetBuf(select_all(Buf))
    /\ last_op' = Op("select_all", << >>)
    /\ UNCHANGED << ref_lines, net_delta, ops >>
    /\ UNCHANGED undo_vars

\* a mutating call: the buffer after it, the reference list after it and the
\* line-count delta it records
Mutate(name, text, nb, nref, delta) ==
    /\ ops < MaxOps
    /\ SetBuf(nb)
    /\ ref_lines' = nref
    /\ net_delta' = net_delta + delta
    /\ last_op' = Op(name, text)
    /\ ops' = ops + 1

InsertText(text) ==
    /\ Mutate("insert_text", text, insert_text(Buf, text),
              list_insert_text(ref_lines, Buf, text), insert_text_delta(Buf, text))
    /\ UNCHANGED undo_vars

DeleteSelection ==
    /\ Mutate("delete_selection", << >>, delete_selection(Buf),
              list_delete_selection(ref_lines, Buf), delete_selection_delta(Buf))
    /\ UNCHANGED undo_vars

Backspace ==
    /\ Mutate("backspace", << >>, backspace(Buf),
              list_backspace(ref_lines, Buf), backspace_delta(Buf))
    /\ UNCHANGED undo_vars

DeleteKey ==
    /\ Mutate("delete_key", << >>, delete_key(Buf),
              list_delete_key(ref_lines, Buf), delete_key_delta(Buf))
    /\ UNCHANGED undo_vars

InsertNewline ==
    /\ Mutate("insert_newline", << >>, insert_newline(Buf),
              list_insert_newline(ref_lines, Buf), insert_newline_delta(Buf))
    /\ UNCHANGED undo_vars

Next ==
    \/ \E ln \in LineArgs(Buf) : \E col \in ColArgs(Buf, ln) : \E ext \in BOOLEAN :
           SetCursor(ln, col, ext)
    \/ SelectAll
    \/ \E text \in Texts : InsertText(text)
    \/ DeleteSelection
    \/ Backspace
    \/ DeleteKey
    \/ InsertNewline

Spec == Init /\ [][Next]_vars

\* ------------------------------------------------------------------------
\* SearchEngine.search_async: a plain, case-sensitive search run chunk by
\* chunk from the idle callback search_chunk.  The record of a search holds
\* the closure's state (matches, current_line, cancelled, idle_id), whether
\* the idle source is still installed (scheduled), whether the returned
\* cancel function is the empty lambda, and how often on_progress and
\* on_complete have been called.
\* ------------------------------------------------------------------------
\* the matches of query_text in line i from column start on, left to right
\* without overlap
RECURSIVE line_matches(_, _, _, _)
line_matches(line_text, query_text, start, i) ==
    IF find(line_text, query_text, start) = -1 THEN << >>
    ELSE << << i, find(line_text, query_text, start), i,
               find(line_text, query_text, start) + Len(query_text), query_text >> >>
         \o line_matches(line_text, query_text,
                         find(line_text, query_text, start) + Len(query_text), i)

\* on_complete(matches)
on_complete(s, matches) ==
    [ s EXCEPT !.matches = matches, !.complete_calls = @ + 1 ]

\* on_progress(matches, lines_searched, total_lines)
on_progress(s) == [ s EXCEPT !.progress_calls = @ + 1 ]

\* the for loop of search_chunk from line i: the search after the loop, the
\* idle source removed when the match limit stopped it
RECURSIVE search_lines(_, _, _, _)
search_lines(s, b, i, end_line) ==
    IF i >= end_line THEN s
    ELSE IF get_line(b, i) = << >> THEN search_lines(s, b, i + 1, end_line)
    ELSE IF s.max_matches > 0
            /\ Len(s.matches \o line_matches(get_line(b, i), s.query_text, 0, i))
                 >= s.max_matches
    THEN [ on_complete(s, SubSeq(s.matches \o line_matches(get_line(b, i),
                                                          s.query_text, 0, i),
                                 1, s.max_matches))
             EXCEPT !.scheduled = FALSE ]
    ELSE search_lines([ s EXCEPT !.matches = @ \o line_matches(get_line(b, i),
                                                              s.query_text, 0, i) ],
                      b, i + 1, end_line)

\* the end of search_chunk after a loop that ran through: progress is
\* reported, and the search completes once every line has been searched
report_chunk(s, end_line, keep_source) ==
    IF end_line >= s.total_lines
    THEN [ on_complete(on_progress([ s EXCEPT !.current_line = end_line ]), s.matches)
             EXCEPT !.scheduled = keep_source ]
    ELSE on_progress([ s EXCEPT !.current_line = end_line ])

\* A search_chunk that asks to be called again after it has completed.
search_chunk_rescheduled(s, b) ==
    IF s.cancelled THEN [ s EXCEPT !.scheduled = FALSE ]
    ELSE IF ~search_lines(s, b, s.current_line,
                          Min(s.current_line + s.chunk_size, s.total_lines)).scheduled
    THEN [ search_lines(s, b, s.current_line,
                        Min(s.current_line + s.chunk_size, s.total_lines))
             EXCEPT !.scheduled = TRUE ]
    ELSE report_chunk(search_lines(s, b, s.current_line,
                                   Min(s.current_line + s.chunk_size, s.total_lines)),
                      Min(s.current_line + s.chunk_size, s.total_lines), TRUE)

\* search_chunk, the idle callback: returning False removes the idle source
search_chunk(s, b) ==
    IF s.cancelled THEN [ s EXCEPT !.scheduled = FALSE ]
    ELSE IF ~search_lines(s, b, s.current_line,
                          Min(s.current_line + s.chunk_size, s.total_lines)).scheduled
    THEN search_lines(s, b, s.current_line,
                      Min(s.current_line + s.chunk_size, s.total_lines))
    ELSE report_chunk(search_lines(s, b, s.current_line,
                                   Min(s.current_line + s.chunk_size, s.total_lines)),
                      Min(s.current_line + s.chunk_size, s.total_lines), FALSE)

\* search_async(buffer, query, True, False, max_matches, on_progress,
\* on_complete, chunk_size): an empty query completes at once with no match
search_async(b, query, max_matches, size) ==
    IF query = << >>
    THEN on_complete([ NoSearch EXCEPT !.started = TRUE ], << >>)
    ELSE [ NoSearch EXCEPT !.started = TRUE, !.query_text = query,
                           !.max_matches = max_matches, !.chunk_size = size,
                           !.total_lines = total(b), !.idle_id = TRUE,
                           !.scheduled = TRUE, !.cancel_is_noop = FALSE ]

\* the cancel function search_async returned
cancel(s) ==
    IF s.cancel_is_noop THEN s
    ELSE [ s EXCEPT !.cancelled = TRUE,
                    !.scheduled = IF s.idle_id THEN FALSE ELSE @,
                    !.idle_id = FALSE ]

\* the queries, match limits and chunk sizes of the searches started
Queries == { << >>, << "a" >>, << "q" >>, << "p", "q" >>, << "z" >> }

MatchLimits == { 0, 1 }

ChunkSizes == 1..MaxChunk

SearchCall(name, ns) ==
    /\ search' = ns
    /\ last_op' = Op(name, << >>)
    /\ UNCHANGED << file, edits, inserted_lines, deleted_lines, line_offsets,
                    cursor_line, cursor_col, selection, ref_lines, net_delta, ops,
                    undo_stack, redo_stack, is_doing_undo, now, pre_state,
                    undone_run, pc, entry, mm, encoding, index, counts, chunk_sums,
                    total_visual_lines, chunk_size, ctrl, opening >>

SearchAsync(query, max_matches, size) ==
    /\ ~search.started
    /\ SearchCall("search_async", search_async(Buf, query, max_matches, size))

\* the main loop runs the idle callback
SearchChunk ==
    /\ search.scheduled
    /\ SearchCall("search_chunk", search_chunk(search, Buf))

\* the cancel function called between two callbacks of the main loop
Cancel ==
    /\ search.started /\ ~search.cancelled
    /\ SearchCall("cancel", cancel(search))

NextSearch ==
    \/ \E query \in Queries : \E m \in MatchLimits : \E size \in ChunkSizes :
           SearchAsync(query, m, size)
    \/ SearchChunk
    \/ Cancel

\* the main loop keeps running the idle callback while it is installed
SpecSearch == Init /\ [][NextSearch]_vars /\ WF_vars(SearchChunk)

\* ------------------------------------------------------------------------
\* Dragging with the pointer: start_drag on a position of the document,
\* update_drag wherever the pointer goes, end_drag
\* ------------------------------------------------------------------------
DragCall(name, nb, nc) ==
    /\ SetBuf(nb)
    /\ ctrl' = nc
    /\ last_op' = Op(name, << >>)
    /\ UNCHANGED << ref_lines, net_delta, ops, undo_stack, redo_stack,
                    is_doing_undo, now, pre_state, undone_run, pc, entry,
                    mm, encoding, index, counts, chunk_sums,
                    total_visual_lines, chunk_size, search, opening >>

StartDrag(ln, col) ==
    DragCall("start_drag", start_drag(Buf, ln, col),
             [ dragging |-> TRUE, drag_start_line |-> ln, drag_start_col |-> col ])

UpdateDrag(ln, col) ==
    DragCall("update_drag", update_drag(ctrl, Buf, ln, col), ctrl)

EndDrag == DragCall("end_drag", Buf, [ ctrl EXCEPT !.dragging = FALSE ])

NextDrag ==
    \/ \E ln \in 0..(total(Buf) - 1) : \E col \in 0..Len(get_line(Buf, ln)) :
           StartDrag(ln, col)
    \/ \E ln \in LineArgs(Buf) : \E col \in ColArgs(Buf, ln) : UpdateDrag(ln, col)
    \/ EndDrag

SpecDrag == Init /\ [][NextDrag]_vars

\* insert_text and delete_selection only, the cursor placed with set_cursor
NextInsDel ==
    \/ \E ln \in LineArgs(Buf) : \E col \in ColArgs(Buf, ln) : \E ext \in BOOLEAN :
           SetCursor(ln, col, ext)
    \/ \E text \in Texts : InsertText(text)
    \/ DeleteSelection

SpecInsDel == Init /\ [][NextInsDel]_vars

\* ------------------------------------------------------------------------
\* The buffer with its undo engine: every mutating call records its commands
\* ------------------------------------------------------------------------
RECURSIVE add_commands(_, _)
add_commands(st, cmds) ==
    IF cmds = << >> THEN st
    ELSE add_commands(add_command(st, Head(cmds)), Tail(cmds))

\* a recorded call made dt seconds after the previous one: the buffer after
\* it and the commands it hands to add_command (the plain-list reference and
\* the delta sum belong to the unrecorded machine and stay as they are)
Recorded(name, text, nb, cmds, dt) ==
    /\ ops < MaxOps
    /\ SetBuf(nb)
    /\ SetStack(add_commands(Stack, cmds))
    /\ now' = now + dt
    /\ pre_state' = IF ops = 0 THEN Snapshot(Buf) ELSE pre_state
    /\ undone_run' = RunAfterEdit
    /\ last_op' = Op(name, text)
    /\ ops' = ops + 1
    /\ UNCHANGED << ref_lines, net_delta, pc, entry, beside_vars >>

RecInsertText(text, dt) ==
    Recorded("insert_text", text, insert_text(Buf, text),
             recorded_insert_text(Buf, text, now + dt), dt)

RecDeleteSelection(dt) ==
    Recorded("delete_selection", << >>, delete_selection(Buf),
             recorded_delete_selection(Buf, now + dt), dt)

RecBackspace(dt) ==
    Recorded("backspace", << >>, backspace(Buf),
             recorded_backspace(Buf, now + dt), dt)

RecDeleteKey(dt) ==
    Recorded("delete_key", << >>, delete_key(Buf),
             recorded_delete_key(Buf, now + dt), dt)

RecInsertNewline(dt) ==
    Recorded("insert_newline", << >>, insert_newline(Buf),
             recorded_insert_newline(Buf, now + dt), dt)

\* set_cursor between recorded calls and undo() calls
SetCursorInRun(ln, col, ext) ==
    /\ MoveCursor(ln, col, ext)
    /\ undone_run' = RunAfterMove

\* UndoStack.undo
Undo ==
    /\ IF undo_stack = << >>
       THEN UNCHANGED << file, edits, inserted_lines, deleted_lines, line_offsets,
                         cursor_line, cursor_col, selection, undo_stack, redo_stack,
                         is_doing_undo >>
       ELSE LET cmd == undo_stack[Len(undo_stack)]
            IN  /\ undo_stack' = SubSeq(undo_stack, 1, Len(undo_stack) - 1)
                /\ redo_stack' = Append(redo_stack, cmd)
                /\ SetBuf(command_undo(cmd, Buf))
                /\ is_doing_undo' = FALSE
    /\ undone_run' = IF undone_run < 0 THEN -1 ELSE Min(ops, undone_run + 1)
    /\ last_op' = Op("undo", << >>)
    /\ UNCHANGED << ref_lines, net_delta, ops, now, pre_state, pc, entry,
                    beside_vars >>

NextUndo ==
    \/ \E ln \in 0..(total(Buf) - 1) : \E col \in 0..Len(get_line(Buf, ln)) :
           \E ext \in BOOLEAN : SetCursorInRun(ln, col, ext)
    \/ \E text \in Texts : \E dt \in Elapsed : RecInsertText(text, dt)
    \/ \E dt \in Elapsed : RecDeleteSelection(dt)
    \/ \E dt \in Elapsed : RecBackspace(dt)
    \/ \E dt \in Elapsed : RecDeleteKey(dt)
    \/ \E dt \in Elapsed : RecInsertNewline(dt)
    \/ Undo

\* the recorded machine starts from the one-line file
InitUndo == Init /\ file = FileOne

SpecUndo == InitUndo /\ [][NextUndo]_vars

\* ------------------------------------------------------------------------
\* Claims
\* ------------------------------------------------------------------------
\* The undo stack driven call by call: edits performed and recorded as
\* commands, undo() and redo() split at the application of the command,
\* and add_command called while a command is being applied
\* ------------------------------------------------------------------------
\* UndoStack(buffer, max_size=Depth)
SmallStack == [ Stack EXCEPT !.max_size = Depth ]

Ins(line, col, text, ts) ==
    InsertCommand(line, col, text, text_end(line, col, text)[1],
                  text_end(line, col, text)[2], ts)

\* the commands recorded at time ts
Commands(ts) ==
    { Ins(0, 0, << "c" >>, ts), Ins(0, 1, << "a" >>, ts), Ins(0, 2, << "t" >>, ts),
      Ins(0, 0, << "c", "a", "t", " " >>, ts), Ins(0, 4, << "d", "o", "g" >>, ts),
      Ins(0, 1, << "X", NL, "Y" >>, ts),
      DeleteCommand(0, 1, << "q" >>, FALSE, ts),
      DeleteCommand(0, 0, << "p" >>, FALSE, ts),
      CompositeCommand(<< DeleteCommand(0, 0, << "p" >>, FALSE, ts),
                          Ins(0, 0, << "X" >>, ts) >>) }

\* one step of a call to the stack: the buffer, the stack, the position and
\* the bookkeeping after it; calls counts the call when the step enters it
StackCall(name, calls, nb, nst, npc, nentry, dt) ==
    /\ ops + calls <= MaxCalls
    /\ SetBuf(nb)
    /\ SetStack(nst)
    /\ pc' = npc
    /\ entry' = nentry
    /\ now' = now + dt
    /\ last_op' = Op(name, << >>)
    /\ ops' = ops + calls
    /\ UNCHANGED << ref_lines, net_delta, pre_state, undone_run, beside_vars >>

AtEntry(name) == [ name |-> name, stack |-> SmallStack, buf |-> Buf, raised |-> FALSE ]

\* an edit performed on the buffer, dt seconds after the previous call, and
\* handed to add_command as the command cmd
Record(cmd, dt) ==
    /\ pc = "idle"
    /\ StackCall("add_command", 1, command_redo(cmd, Buf),
                 add_command(SmallStack, cmd), pc, entry, dt)

\* add_command reached while undo() or redo() applies a command
ReplayAddCommand(cmd) ==
    /\ pc # "idle"
    /\ StackCall("replayed add_command", 0, Buf, add_command(SmallStack, cmd),
                 pc, entry, 0)

\* UndoStack.undo up to cmd.undo(self.buffer)
UndoBegin ==
    /\ pc = "idle"
    /\ StackCall("undo", 1, Buf, undo_pop(SmallStack),
                 IF undo_stack = << >> THEN "idle" ELSE "undo", AtEntry("undo"), 0)

\* cmd.undo(self.buffer) and the finally clause; a raising application
\* leaves the buffer as it found it
UndoApply(raises) ==
    /\ pc = "undo"
    /\ StackCall("undo", 0,
                 IF raises THEN Buf ELSE command_undo(redo_stack[Len(redo_stack)], Buf),
                 replay_end(SmallStack), "idle", [ entry EXCEPT !.raised = raises ], 0)

\* UndoStack.redo up to cmd.redo(self.buffer)
RedoBegin ==
    /\ pc = "idle"
    /\ StackCall("redo", 1, Buf, redo_pop(SmallStack),
                 IF redo_stack = << >> THEN "idle" ELSE "redo", AtEntry("redo"), 0)

\* cmd.redo(self.buffer) and the finally clause
RedoApply(raises) ==
    /\ pc = "redo"
    /\ StackCall("redo", 0,
                 IF raises THEN Buf ELSE command_redo(undo_stack[Len(undo_stack)], Buf),
                 replay_end(SmallStack), "idle", [ entry EXCEPT !.raised = raises ], 0)

NextStack ==
    \/ \E dt \in Elapsed : \E cmd \in Commands(now + dt) : Record(cmd, dt)
    \/ \E cmd \in Commands(now) : ReplayAddCommand(cmd)
    \/ UndoBegin
    \/ \E raises \in BOOLEAN : UndoApply(raises)
    \/ RedoBegin
    \/ \E raises \in BOOLEAN : RedoApply(raises)

InitStack == Init /\ file = FileOne

SpecStack == InitStack /\ [][NextStack]_vars

\* the command object cmd: the command with the identity n of the object,
\* which merge, undo and redo leave alone
Object(cmd, n) == [ id |-> n ] @@ cmd

\* an edit handed to add_command as a newly created command object
RecordObject(cmd, dt) ==
    /\ pc = "idle"
    /\ StackCall("add_command", 1, command_redo(cmd, Buf),
                 add_command(SmallStack, Object(cmd, ops + 1)), pc, entry, dt)

NextObjects ==
    \/ \E dt \in Elapsed : \E cmd \in Commands(now + dt) : RecordObject(cmd, dt)
    \/ \E cmd \in Commands(now) : ReplayAddCommand(cmd)
    \/ UndoBegin
    \/ \E raises \in BOOLEAN : UndoApply(raises)
    \/ RedoBegin
    \/ \E raises \in BOOLEAN : RedoApply(raises)

\* the undo stack holding command objects
SpecObjects == InitStack /\ [][NextObjects]_vars

\* ------------------------------------------------------------------------
\* The indexed file: constructed on a mapped file, then indexed
\* ------------------------------------------------------------------------
\* the bytes of a file after its marker, and the markers it may start with
Bodies == UNION { [ 1..n -> { 0, LF, 5, 1 } ] : n \in 0..MaxBody }

Markers == { << >>, BOM_LE, BOM_BE, BOM_UTF8 }

\* the files that can be mapped: an empty file cannot
MappedFiles == { m \o body : m \in Markers, body \in Bodies } \ { << >> }

\* the editor state beside the indexed file, as it is loaded and left alone
editor_vars == << file, edits, inserted_lines, deleted_lines, line_offsets,
                 cursor_line, cursor_col, selection, undo_stack, redo_stack,
                 is_doing_undo, now, pre_state, undone_run, pc, entry,
                 ctrl, search, opening, ref_lines, net_delta >>

visual_vars == << counts, chunk_sums, total_visual_lines, chunk_size >>

\* IndexedFile.detect_encoding, as __init__ calls it
DetectEncoding ==
    /\ ops < MaxOps
    /\ encoding' = detect_encoding(Prefix(mm, PeekSize))
    /\ last_op' = Op("detect_encoding", << >>)
    /\ ops' = ops + 1
    /\ UNCHANGED << mm, index, editor_vars, visual_vars >>

\* IndexedFile.index_file
IndexFile ==
    /\ ops < MaxOps
    /\ index' = index_file(mm, encoding)
    /\ last_op' = Op("index_file", << >>)
    /\ ops' = ops + 1
    /\ UNCHANGED << mm, encoding, editor_vars, visual_vars >>

NextIndex == DetectEncoding \/ IndexFile

InitIndex ==
    /\ InitBuffer /\ file = FileOne
    /\ InitVisual /\ InitWindow
    /\ mm \in MappedFiles
    /\ encoding = detect_encoding(Prefix(mm, PeekSize))
    /\ index = << >>

SpecIndex == InitIndex /\ [][NextIndex]_vars

\* the files a path can name: a marker or none, then a body, the empty file
\* among them
PeekedFiles == { m \o body : m \in Markers, body \in Bodies }

\* a path whose first bytes have not been read yet
InitDetect ==
    /\ InitBuffer /\ file = FileOne
    /\ InitVisual /\ InitWindow
    /\ mm \in PeekedFiles
    /\ encoding = "unread"
    /\ index = << >>

\* detect_encoding(path) called on any file
SpecDetect == InitDetect /\ [][DetectEncoding]_vars

\* ------------------------------------------------------------------------
\* EditorWindow.open_file: the handler done presents the loading dialog,
\* constructs the IndexedFile and starts the worker thread; the worker
\* appends to the index entry by entry and hands index_complete, or the
\* closing of the dialog, to the main loop, which runs the idle callbacks
\* in the order they were added.  The record of an opening holds the
\* dialog, the thread, the idle queue, whether and with which table
\* buf.load was called, and whether load or a later get_line happened while
\* the worker was still indexing.
\* ------------------------------------------------------------------------
\* A done handler that also queues index_complete when it starts the thread.
done_loading_at_once(o, enc) ==
    IF enc \notin { "utf-8", "utf-8-sig", "utf-16le", "utf-16be" } \/ mm = << >>
    THEN [ o EXCEPT !.started = TRUE, !.dialog = "open" ]
    ELSE [ o EXCEPT !.started = TRUE, !.dialog = "open", !.thread = "running",
                    !.idle = Append(@, "index_complete") ]

\* done: loading_dialog.present(), IndexedFile(path), thread.start(); when
\* the constructor raises (no encoding detected, or nothing to map) the
\* handler ends there
done(o, enc) ==
    IF enc \notin { "utf-8", "utf-8-sig", "utf-16le", "utf-16be" } \/ mm = << >>
    THEN [ o EXCEPT !.started = TRUE, !.dialog = "open" ]
    ELSE [ o EXCEPT !.started = TRUE, !.dialog = "open", !.thread = "running" ]

\* the summary index_file prints divides by len(self.index) - 1 and by the
\* elapsed time
index_file_raises(table, elapsed_is_zero) == Len(table) = 1 \/ elapsed_is_zero

\* index_in_thread once the scan is over: the last progress report is
\* queued, then index_complete, or the closing of the dialog when
\* index_file raised
index_in_thread(o, raises) ==
    IF raises
    THEN [ o EXCEPT !.thread = "raised",
                    !.idle = @ \o << "progress_callback", "loading_dialog.close" >> ]
    ELSE [ o EXCEPT !.thread = "returned",
                    !.idle = @ \o << "progress_callback", "index_complete" >> ]

\* index_complete: the new tab's buffer is loaded with idx and the loading
\* dialog is closed
index_complete(o, table) ==
    [ o EXCEPT !.loaded = TRUE, !.table_at_load = table,
               !.loaded_while_indexing = (o.thread = "running"),
               !.dialog = "closed" ]

\* the idle callback cb run by the main loop
run_idle(o, cb, table) ==
    IF cb = "index_complete" THEN index_complete(o, table)
    ELSE IF cb = "loading_dialog.close" THEN [ o EXCEPT !.dialog = "closed" ]
    ELSE o

OpenCall(name, no) ==
    /\ opening' = no
    /\ last_op' = Op(name, << >>)
    /\ UNCHANGED << file, edits, inserted_lines, deleted_lines, line_offsets,
                    cursor_line, cursor_col, selection, ref_lines, net_delta, ops,
                    undo_stack, redo_stack, is_doing_undo, now, pre_state,
                    undone_run, pc, entry, mm, counts, chunk_sums,
                    total_visual_lines, chunk_size, ctrl, search >>

\* the file dialog hands the chosen path to done
Done ==
    /\ ~opening.started
    /\ encoding' = detect_encoding(Prefix(mm, PeekSize))
    /\ index' = << >>
    /\ OpenCall("open_file", done(opening, detect_encoding(Prefix(mm, PeekSize))))

\* the worker inside _index_utf8 or _index_utf16: one more entry appended
ThreadAppend ==
    /\ opening.thread = "running"
    /\ Len(index) < Len(index_file(mm, encoding))
    /\ index' = SubSeq(index_file(mm, encoding), 1, Len(index) + 1)
    /\ UNCHANGED encoding
    /\ OpenCall("index_file", opening)

\* the worker leaves index_file, by return or by exception
ThreadReturn(elapsed_is_zero) ==
    /\ opening.thread = "running"
    /\ Len(index) = Len(index_file(mm, encoding))
    /\ UNCHANGED << encoding, index >>
    /\ OpenCall("index_in_thread",
                index_in_thread(opening, index_file_raises(index, elapsed_is_zero)))

\* the main loop runs the idle callback added first
MainLoop ==
    /\ opening.idle # << >>
    /\ UNCHANGED << encoding, index >>
    /\ OpenCall(Head(opening.idle),
                run_idle([ opening EXCEPT !.idle = Tail(@) ], Head(opening.idle), index))

\* the view of the new tab draws: get_line reads the offset table
Draw ==
    /\ opening.loaded
    /\ ~opening.read_while_indexing
    /\ UNCHANGED << encoding, index >>
    /\ OpenCall("get_line", [ opening EXCEPT !.read_while_indexing =
                                                (opening.thread = "running") ])

NextOpen ==
    \/ Done
    \/ ThreadAppend
    \/ \E elapsed_is_zero \in BOOLEAN : ThreadReturn(elapsed_is_zero)
    \/ MainLoop
    \/ Draw

InitOpen ==
    /\ InitBuffer /\ file = FileOne
    /\ InitVisual /\ InitWindow
    /\ mm \in PeekedFiles
    /\ encoding = "unread"
    /\ index = << >>

\* the worker thread runs on and the main loop keeps dispatching
SpecOpen ==
    /\ InitOpen /\ [][NextOpen]_vars
    /\ WF_vars(ThreadAppend)
    /\ WF_vars(\E elapsed_is_zero \in BOOLEAN : ThreadReturn(elapsed_is_zero))
    /\ WF_vars(MainLoop)

\* ------------------------------------------------------------------------
\* The visual line manager: update, insert and delete calls
\* ------------------------------------------------------------------------
Vm == [ counts |-> counts, chunk_sums |-> chunk_sums,
        total_visual_lines |-> total_visual_lines, chunk_size |-> chunk_size ]

SetVm(nv) ==
    /\ counts' = nv.counts
    /\ chunk_sums' = nv.chunk_sums
    /\ total_visual_lines' = nv.total_visual_lines
    /\ chunk_size' = nv.chunk_size

\* line counts of the documents a manager is created for, the wrap counts
\* reported to it and the line counts of structural changes
InitialLines == { 0, 5, 10 }

WrapCounts == { 0, 3, 300 }

LineCounts == { -1, 1, 2 }

\* line arguments: every line, and positions before the first and past the last
VisualLineArgs == -1..(Len(counts) + 1)

VisualCall(name, nv) ==
    /\ ops < MaxVisualOps
    /\ SetVm(nv)
    /\ last_op' = Op(name, << >>)
    /\ ops' = ops + 1
    /\ UNCHANGED << mm, encoding, index, editor_vars >>

Update(logical_line, visual_count) ==
    VisualCall("update", update(Vm, logical_line, visual_count))

Insert(logical_line, count, visual_count) ==
    VisualCall("insert", insert(Vm, logical_line, count, visual_count))

Delete(logical_line, count) ==
    VisualCall("delete", delete(Vm, logical_line, count))

NextVisual ==
    \/ \E l \in VisualLineArgs : \E c \in WrapCounts : Update(l, c)
    \/ \E l \in VisualLineArgs : \E n \in LineCounts : \E c \in WrapCounts :
           Insert(l, n, c)
    \/ \E l \in VisualLineArgs : \E n \in LineCounts : Delete(l, n)

InitVisualManager ==
    /\ InitBuffer /\ file = FileOne
    /\ InitIndexedFile /\ InitWindow
    /\ \E n \in InitialLines : \E size \in { SmallChunk, CHUNK_SIZE } :
          /\ counts = VisualLineManager(n, size).counts
          /\ chunk_sums = VisualLineManager(n, size).chunk_sums
          /\ total_visual_lines = VisualLineManager(n, size).total_visual_lines
          /\ chunk_size = VisualLineManager(n, size).chunk_size

SpecVisual == InitVisualManager /\ [][NextVisual]_vars

\* ------------------------------------------------------------------------
\* C1: after any sequence of insert_text and delete_selection calls on a
\* buffer loaded from a file, total() and get_line(0..total()-1) equal the
\* plain list of strings that received the same edits.
C1_RefinesPlainList == Lines(Buf) = ref_lines

\* the last cumulative shift of the offset table, 0 when it is empty
LastShift(b) ==
    IF b.line_offsets = << >> THEN 0 ELSE b.line_offsets[Len(b.line_offsets)][2]

\* C3: total() is the physical line count plus the last cumulative shift,
\* and that shift is the sum of the line-count deltas recorded so far.
C3_TotalIsPhysicalPlusShift ==
    /\ total(Buf) = total_lines(file) + LastShift(Buf)
    /\ LastShift(Buf) = net_delta

\* an offset table of several entries after edits that added and removed lines
C3_Witness ==
    /\ Len(line_offsets) >= 2
    /\ net_delta # 0
    /\ \E i \in 1..Len(line_offsets) : line_offsets[i][2] # net_delta

\* what C4 states of a multi-line insert_text(text) taking b to nb
InsertTextPost(b, nb, text) ==
    LET parts == split(text)
        k     == Len(parts) - 1
        l     == b.cursor_line
        c     == b.cursor_col
        old   == get_line(b, l)
    IN  /\ total(nb) = total(b) + k
        /\ get_line(nb, l) = Prefix(old, c) \o parts[1]
        /\ \A i \in 1..(k - 1) : get_line(nb, l + i) = parts[i + 1]
        /\ get_line(nb, l + k) = parts[k + 1] \o Suffix(old, c)
        /\ \A j \in 0..(l - 1) : get_line(nb, j) = get_line(b, j)
        /\ \A j \in (l + 1)..(total(b) - 1) : get_line(nb, j + k) = get_line(b, j)
        /\ nb.cursor_line = l + k
        /\ nb.cursor_col = Len(parts[k + 1])

\* C4: insert_text of k+1 segments (k >= 1) with no selection and the cursor
\* at (l, c) grows total() by k, writes the segments at lines l..l+k around
\* the old line's prefix and suffix, keeps the lines before l, moves every
\* former line j > l to j+k unchanged and leaves the cursor at the end of
\* the last segment.
C4_MultiLineInsert ==
    [][ \A text \in Texts :
          (InsertText(text) /\ Len(split(text)) >= 2 /\ ~has_selection(selection))
          => InsertTextPost(Buf, Buf', text) ]_vars

\* what C5 states of delete_selection() over a multi-line selection
DeleteSelectionPost(b, nb) ==
    LET bd == get_bounds(b.selection)
        s  == bd[1]
        sc == bd[2]
        e  == bd[3]
        ec == bd[4]
    IN  /\ total(nb) = total(b) - (e - s)
        /\ get_line(nb, s) = Prefix(get_line(b, s), sc) \o Suffix(get_line(b, e), ec)
        /\ \A j \in 0..(s - 1) : get_line(nb, j) = get_line(b, j)
        /\ \A j \in (e + 1)..(total(b) - 1) : get_line(nb, j - (e - s)) = get_line(b, j)
        /\ nb.cursor_line = s
        /\ nb.cursor_col = sc
        /\ ~has_selection(nb.selection)

\* C5: delete_selection() over normalized bounds (s, sc)-(e, ec), s < e, drops
\* total() by e-s, leaves line s = old s[:sc] + old e[ec:], keeps the lines
\* before s, moves every former line j > e to j-(e-s) unchanged, puts the
\* cursor at (s, sc) and clears the selection.
C5_MultiLineDelete ==
    [][ (DeleteSelection /\ has_selection(selection)
           /\ get_bounds(selection)[1] < get_bounds(selection)[3])
        => DeleteSelectionPost(Buf, Buf') ]_vars

\* the buffer after insert_text(text) at the cursor of b and the deletion of
\* exactly the inserted span
InsertThenDelete(b, text) ==
    LET b2 == insert_text(b, text)
        b3 == set_cursor(set_cursor(b2, b.cursor_line, b.cursor_col, FALSE),
                         b2.cursor_line, b2.cursor_col, TRUE)
    IN  delete_selection(b3)

\* the round trip from b: total() and every line as before the insert
RoundTrip(b, text) ==
    /\ total(InsertThenDelete(b, text)) = total(b)
    /\ Lines(InsertThenDelete(b, text)) = Lines(b)

\* C6: from every buffer state, with the cursor put at any in-range position,
\* insert_text(text) followed by selecting exactly the inserted span and
\* delete_selection() restores total() and the content of every logical line.
C6_InsertDeleteRoundTrip ==
    \A ln \in 0..(total(Buf) - 1) :
      \A col \in 0..Len(get_line(Buf, ln)) :
        \A text \in Texts \cup { << >> } :
          RoundTrip(set_cursor(Buf, ln, col, FALSE), text)

\* a multi-line insert into the loaded file undone by deleting its span
C6_Witness ==
    /\ ops = 2
    /\ last_op.name = "delete_selection"
    /\ \E i \in 1..Len(line_offsets) : line_offsets[i][2] = 0
    /\ Lines(Buf) = file

\* C7: with no selection, backspace() at (n, 0), n > 0, leaves the total()
\* and lines of delete_selection() over (n-1, len(line n-1))..(n, 0), and
\* delete_key() at (n, len(line n)), n < total()-1, those of delete_selection()
\* over (n, len(line n))..(n+1, 0); every line after the removed one keeps
\* its content and moves up by one.
C7_MergeAgreesWithDeleteSelection ==
    [][ /\ (Backspace /\ ~has_selection(selection) /\ cursor_col = 0 /\ cursor_line > 0)
           => /\ Lines(Buf') =
                   Lines(delete_selection(select_range(Buf,
                           cursor_line - 1, Len(get_line(Buf, cursor_line - 1)),
                           cursor_line, 0)))
              /\ \A j \in (cursor_line + 1)..(total(Buf) - 1) :
                   get_line(Buf', j - 1) = get_line(Buf, j)
        /\ (DeleteKey /\ ~has_selection(selection)
              /\ cursor_col = Len(get_line(Buf, cursor_line))
              /\ cursor_line < total(Buf) - 1)
           => /\ Lines(Buf') =
                   Lines(delete_selection(select_range(Buf,
                           cursor_line, Len(get_line(Buf, cursor_line)),
                           cursor_line + 1, 0)))
              /\ \A j \in (cursor_line + 2)..(total(Buf) - 1) :
                   get_line(Buf', j - 1) = get_line(Buf, j)
      ]_vars

\* C8: get_line(n) is the empty string for every n < 0 and every n >= total().
C8_OutOfRangeLineIsEmpty ==
    \A n \in (-3 .. -1) \cup (total(Buf) .. (total(Buf) + 3)) \cup { -Far, Far } :
        get_line(Buf, n) = << >>

\* C9: no logical line is a key of more than one of inserted_lines, edits
\* and deleted_lines.
C9_OverlaysDisjoint ==
    /\ (DOMAIN inserted_lines) \cap (DOMAIN edits) = {}
    /\ (DOMAIN inserted_lines) \cap deleted_lines = {}
    /\ (DOMAIN edits) \cap deleted_lines = {}

\* both overlay maps populated, next to each other, by structural edits
C9_Witness ==
    /\ ops = 2
    /\ Len(line_offsets) >= 1
    /\ \E n \in DOMAIN edits : (n + 1) \in DOMAIN inserted_lines
    /\ \E n \in DOMAIN inserted_lines : (n + 1) \in DOMAIN edits

\* C10: set_cursor(line, col) with arbitrary integers leaves
\* cursor_line = max(0, min(line, total()-1)) and
\* cursor_col = max(0, min(col, len(get_line(cursor_line)))).
C10_SetCursorClamps ==
    \A ln \in LineArgs(Buf) \cup { total(Buf), -Far } :
      \A col \in ColArgs(Buf, ln) \cup { Len(get_line(Buf, ln)) + 1, -Far } :
      LET nb == set_cursor(Buf, ln, col, FALSE)
      IN  /\ nb.cursor_line = Max(0, Min(ln, total(Buf) - 1))
          /\ nb.cursor_col = Max(0, Min(col, Len(get_line(Buf, nb.cursor_line))))

\* the cursor put at the very end of an edited document by a set_cursor call
\* whose arguments lay beyond it
C10_Witness ==
    /\ last_op.name = "set_cursor"
    /\ last_op.clamped
    /\ ops > 0
    /\ cursor_line = total(Buf) - 1
    /\ cursor_line > 0
    /\ cursor_col = Len(get_line(Buf, cursor_line))
    /\ cursor_col > 0

\* the selection mark's anchor and floating end
Anchor(b) == << b.selection.start_line, b.selection.start_col >>

Floating(b) == << b.selection.end_line, b.selection.end_col >>

Cursor(b) == << b.cursor_line, b.cursor_col >>

\* the in-range positions of b
Positions(b) ==
    UNION { { << ln, col >> : col \in 0..Len(get_line(b, ln)) } :
            ln \in 0..(total(b) - 1) }

\* a run of extending moves from b ends with the anchor at a
ExtendRunKeepsAnchor(b, a) ==
    \A p1 \in Positions(b) : \A p2 \in Positions(b) : \A p3 \in Positions(b) :
        Anchor(set_cursor(set_cursor(set_cursor(b, p1[1], p1[2], TRUE),
                                     p2[1], p2[2], TRUE), p3[1], p3[2], TRUE)) = a

\* C11: set_cursor with extend_selection opens the anchor at the prior cursor
\* position when no selection is active and moves the floating end to the
\* new clamped position, so the anchor of a run of extending moves stays
\* where the cursor was before the first one; set_cursor without it leaves
\* no selection.
C11_ExtendKeepsAnchor ==
    /\ \A ln \in LineArgs(Buf) : \A col \in ColArgs(Buf, ln) :
         /\ Anchor(set_cursor(Buf, ln, col, TRUE)) =
              (IF selection.active THEN Anchor(Buf) ELSE Cursor(Buf))
         /\ Floating(set_cursor(Buf, ln, col, TRUE)) =
              Cursor(set_cursor(Buf, ln, col, FALSE))
         /\ ~has_selection(set_cursor(Buf, ln, col, FALSE).selection)
    /\ ~selection.active => ExtendRunKeepsAnchor(Buf, Cursor(Buf))

\* a selection stretched by a second extending move away from its anchor
C11_Witness ==
    /\ last_op.name = "set_cursor"
    /\ has_selection(selection)
    /\ Anchor(Buf) # Cursor(Buf)
    /\ Floating(Buf) = Cursor(Buf)
    /\ Anchor(Buf) # << 0, 0 >>
    /\ ops > 0

\* C12: delete_selection() with no selection returns false, emits no changed
\* notification and leaves the overlays, the offset table, total(), every
\* line and the cursor as they were.
C12_DeleteWithoutSelection ==
    ~has_selection(selection) =>
        /\ delete_selection(Buf) = Buf
        /\ Lines(delete_selection(Buf)) = Lines(Buf)
        /\ ~delete_selection_returns(Buf)
        /\ ~delete_selection_emits(Buf)

\* delete_selection() called on an edited buffer whose selection mark is set
\* but empty, after which nothing has changed
C12_Witness ==
    /\ last_op.name = "delete_selection"
    /\ ops = 2
    /\ ~has_selection(selection)
    /\ line_offsets # << >>

\* the commands add_command may be handed in the current state
NextCommands == UNION { Commands(now + dt) : dt \in Elapsed \cup { MergeWindow } }

Top(stack) == stack[Len(stack)]

\* top.merge(cmd) fails on the stack st, or there is no top
CannotMerge(st, cmd) ==
    st.undo_stack = << >> \/ ~command_merge(Top(st.undo_stack), cmd)[1]

\* C13: outside replay, when add_command cannot merge the new command into
\* the top of the undo stack, the command is the new top of the undo stack
\* and the redo stack is empty afterwards.
C13_PushClearsRedo ==
    ~is_doing_undo =>
        \A cmd \in NextCommands :
            CannotMerge(SmallStack, cmd) =>
                /\ add_command(SmallStack, cmd).undo_stack # << >>
                /\ Top(add_command(SmallStack, cmd).undo_stack) = cmd
                /\ add_command(SmallStack, cmd).redo_stack = << >>

\* a command pushed after an undo() had put a command on the redo stack
C13_Witness ==
    /\ last_op.name = "add_command"
    /\ entry.name = "undo"
    /\ entry.stack.undo_stack # << >>
    /\ ~entry.raised
    /\ redo_stack = << >>
    /\ Len(undo_stack) = Depth

\* C14: add_command called while an undo or redo is being applied changes
\* neither the undo stack nor the redo stack.
C14_ReplayIsNotRecorded ==
    is_doing_undo =>
        \A cmd \in NextCommands :
            /\ add_command(SmallStack, cmd).undo_stack = undo_stack
            /\ add_command(SmallStack, cmd).redo_stack = redo_stack

\* add_command called inside undo(), with commands on both stacks
C14_Witness ==
    /\ last_op.name = "replayed add_command"
    /\ pc = "undo"
    /\ is_doing_undo
    /\ undo_stack # << >>
    /\ redo_stack # << >>

Front(stack) == SubSeq(stack, 1, Len(stack) - 1)

\* undo() has taken cmd from the undo stack it found to the redo stack
UndoMoved(cmd) ==
    /\ cmd = Top(entry.stack.undo_stack)
    /\ undo_stack = Front(entry.stack.undo_stack)
    /\ redo_stack = Append(entry.stack.redo_stack, cmd)

\* redo() has taken cmd from the redo stack it found to the undo stack
RedoMoved(cmd) ==
    /\ cmd = Top(entry.stack.redo_stack)
    /\ redo_stack = Front(entry.stack.redo_stack)
    /\ undo_stack = Append(entry.stack.undo_stack, cmd)

\* C15: undo() on a non-empty undo stack removes exactly its top command,
\* applies that command's undo to the buffer with the replaying flag set and
\* returns with the command on top of the redo stack and the flag cleared,
\* also when the application raises; redo() mirrors this, and undo() followed
\* by redo() leaves both stacks as they were.
C15_UndoRedoMoveTheTop ==
    /\ pc = "undo" =>
          /\ is_doing_undo
          /\ UndoMoved(Top(redo_stack))
          /\ Buf = entry.buf
    /\ pc = "redo" =>
          /\ is_doing_undo
          /\ RedoMoved(Top(undo_stack))
          /\ Buf = entry.buf
    /\ (pc = "idle" /\ last_op.name = "undo" /\ entry.stack.undo_stack # << >>) =>
          /\ ~is_doing_undo
          /\ UndoMoved(Top(redo_stack))
          /\ Buf = IF entry.raised THEN entry.buf
                   ELSE command_undo(Top(redo_stack), entry.buf)
    /\ (pc = "idle" /\ last_op.name = "redo" /\ entry.stack.redo_stack # << >>) =>
          /\ ~is_doing_undo
          /\ RedoMoved(Top(undo_stack))
          /\ Buf = IF entry.raised THEN entry.buf
                   ELSE command_redo(Top(undo_stack), entry.buf)
    /\ (pc = "idle" /\ undo_stack # << >>) =>
          replay_end(redo_pop(replay_end(undo_pop(SmallStack)))) = SmallStack

\* a redo() that has put back, and applied to the buffer, the command an
\* undo() had taken off a stack of two
C15_Witness ==
    /\ pc = "idle"
    /\ last_op.name = "redo"
    /\ entry.stack.redo_stack # << >>
    /\ ~entry.raised
    /\ Buf # entry.buf
    /\ Len(undo_stack) = 2

\* C16: undo() with an empty undo stack and redo() with an empty redo stack
\* change neither stack, nor the replaying flag, nor the buffer (lines,
\* total, cursor, selection), and raise nothing.
C16_EmptyUndoRedoAreNoOps ==
    /\ (pc = "idle" /\ last_op.name = "undo" /\ entry.stack.undo_stack = << >>) =>
          /\ SmallStack = entry.stack
          /\ Buf = entry.buf
          /\ ~entry.raised
    /\ (pc = "idle" /\ last_op.name = "redo" /\ entry.stack.redo_stack = << >>) =>
          /\ SmallStack = entry.stack
          /\ Buf = entry.buf
          /\ ~entry.raised
    /\ (pc = "idle" /\ undo_stack = << >>) => undo_pop(SmallStack) = SmallStack
    /\ (pc = "idle" /\ redo_stack = << >>) => redo_pop(SmallStack) = SmallStack

\* redo() called with nothing to redo on an edited buffer with commands to undo
C16_Witness ==
    /\ pc = "idle"
    /\ last_op.name = "redo"
    /\ entry.name = "redo"
    /\ entry.stack.redo_stack = << >>
    /\ Len(undo_stack) = 2
    /\ Lines(Buf) # file

HasLineBreak(text) == \E i \in 1..Len(text) : text[i] = NL

\* the conditions C17 names for merging the Insert command cmd into top
MergeConditions(top, cmd) ==
    /\ top.kind = "Insert"
    /\ << cmd.line, cmd.col >> = text_end(top.line, top.col, top.text)
    /\ cmd.timestamp - top.timestamp <= MergeWindow
    /\ ~HasLineBreak(top.text)
    /\ ~HasLineBreak(cmd.text)
    /\ ~(isspace(Top(top.text)) /\ ~isspace(Head(cmd.text)))

\* add_command has pushed cmd as a step of its own
PushedAsNewStep(st, cmd) == Top(add_command(st, cmd).undo_stack) = cmd

\* C17: add_command merges a new Insert command into the top of the undo
\* stack only if the top is an Insert command, the new command starts where
\* the top's text ends, the two were created within the 2-second window,
\* both texts are single-line and the pair does not cross a whitespace to
\* non-whitespace boundary; otherwise the new command is pushed.
C17_MergeOnlyIfAllConditions ==
    (~is_doing_undo /\ undo_stack # << >>) =>
        \A cmd \in NextCommands :
            (cmd.kind = "Insert" /\ ~MergeConditions(Top(undo_stack), cmd)) =>
                PushedAsNewStep(SmallStack, cmd)

RECURSIVE redo_all(_, _)
redo_all(cmds, b) ==
    IF cmds = << >> THEN b ELSE redo_all(Tail(cmds), command_redo(Head(cmds), b))

\* the inserts "c", "a", "t" typed at columns 0, 1, 2 at time ts, and the
\* inserts "cat " and "dog" made at columns 0 and 4, dt seconds apart
Typed_cat(ts) ==
    << Ins(0, 0, << "c" >>, ts), Ins(0, 1, << "a" >>, ts), Ins(0, 2, << "t" >>, ts) >>

Typed_cat_dog(ts, dt) ==
    << Ins(0, 0, << "c", "a", "t", " " >>, ts), Ins(0, 4, << "d", "o", "g" >>, ts + dt) >>

\* C18: the inserts "c", "a", "t" recorded in immediate succession at
\* adjacent columns leave one command on the undo stack, whose undo removes
\* "cat"; an insert of "cat " followed by an adjacent insert of "dog" leaves
\* two commands.
C18_MergeLaw ==
    /\ (pc = "idle" /\ undo_stack = << >>) =>
          /\ Len(add_commands(SmallStack, Typed_cat(now)).undo_stack) = 1
          /\ Lines(command_undo(Top(add_commands(SmallStack, Typed_cat(now)).undo_stack),
                                redo_all(Typed_cat(now), Buf))) = Lines(Buf)
          /\ \A dt \in Elapsed :
                Len(add_commands(SmallStack, Typed_cat_dog(now, dt)).undo_stack) = 2
    /\ (ops = 2 /\ entry.name = "none"
           /\ Lines(Buf) = Lines(redo_all(Typed_cat_dog(0, 0), load(file)))) =>
          Len(undo_stack) = 2
    /\ (ops = 3 /\ entry.name = "none" /\ now = 0
           /\ Lines(Buf) = Lines(redo_all(Typed_cat(0), load(file)))) =>
          /\ Len(undo_stack) = 1
          /\ Lines(command_undo(Top(undo_stack), Buf)) = file

\* "c", "a", "t" recorded one after the other: one command "cat" on the stack
C18_Witness ==
    /\ ops = 3
    /\ entry.name = "none"
    /\ now = 0
    /\ Lines(Buf) = Lines(redo_all(Typed_cat(0), load(file)))
    /\ Len(undo_stack) = 1
    /\ Top(undo_stack).text = << "c", "a", "t" >>

\* C19: the undo stack never holds more than max_size commands; after
\* every add_command len(undo_stack) <= max_size, and a push that would
\* exceed it discards exactly the oldest command and keeps the order of
\* the others.
C19_StackBounded ==
    /\ Len(undo_stack) <= SmallStack.max_size
    /\ \A cmd \in NextCommands :
          /\ Len(add_command(SmallStack, cmd).undo_stack) <= SmallStack.max_size
          /\ (~is_doing_undo /\ CannotMerge(SmallStack, cmd)
                /\ Len(undo_stack) = SmallStack.max_size) =>
                add_command(SmallStack, cmd).undo_stack = Append(Tail(undo_stack), cmd)

\* one more single-character insert recorded than the stack holds, none of
\* them merged: the oldest is gone
C19_Witness ==
    /\ ops = Depth + 1
    /\ entry.name = "none"
    /\ last_op.name = "add_command"
    /\ Len(undo_stack) = Depth
    /\ \A i \in 1..Len(undo_stack) :
          undo_stack[i].kind = "Insert" /\ Len(undo_stack[i].text) = 1
    /\ undo_stack[1].timestamp > 0

IsComposite(cmd) == cmd.kind = "Composite"

\* the two sub-commands of cmd redone first to second, undone second to first
RedoneInOrder(cmd, b) == command_redo(cmd.commands[2], command_redo(cmd.commands[1], b))

UndoneInReverse(cmd, b) == command_undo(cmd.commands[1], command_undo(cmd.commands[2], b))

\* the undo stack of st after cmd has been pushed onto it
WithPushed(st, cmd) ==
    IF Len(st.undo_stack) >= st.max_size THEN Append(Tail(st.undo_stack), cmd)
    ELSE Append(st.undo_stack, cmd)

\* C20: a Composite command redoes its sub-commands in their recorded order
\* and undoes them in the reverse order, and it never merges: a Composite
\* on top of the undo stack absorbs no later command, and a new Composite
\* is not absorbed into an Insert or Delete command on top.
C20_CompositeOrderAndNoMerge ==
    /\ \A cmd \in NextCommands :
          IsComposite(cmd) =>
              /\ command_redo(cmd, Buf) = RedoneInOrder(cmd, Buf)
              /\ command_undo(cmd, Buf) = UndoneInReverse(cmd, Buf)
              /\ ~is_doing_undo =>
                    add_command(SmallStack, cmd).undo_stack = WithPushed(SmallStack, cmd)
    /\ (~is_doing_undo /\ undo_stack # << >> /\ IsComposite(Top(undo_stack))) =>
          \A cmd \in NextCommands :
              add_command(SmallStack, cmd).undo_stack = WithPushed(SmallStack, cmd)
    /\ (pc = "idle" /\ last_op.name = "undo" /\ entry.stack.undo_stack # << >>
           /\ ~entry.raised /\ IsComposite(Top(redo_stack))) =>
          Buf = UndoneInReverse(Top(redo_stack), entry.buf)
    /\ (pc = "idle" /\ last_op.name = "redo" /\ entry.stack.redo_stack # << >>
           /\ ~entry.raised /\ IsComposite(Top(undo_stack))) =>
          Buf = RedoneInOrder(Top(undo_stack), entry.buf)

\* a Composite put back by redo() under which an Insert or Delete command
\* lies unmerged
C20_Witness ==
    /\ pc = "idle"
    /\ last_op.name = "redo"
    /\ entry.stack.redo_stack # << >>
    /\ ~entry.raised
    /\ Len(undo_stack) = 2
    /\ IsComposite(Top(undo_stack))
    /\ ~IsComposite(undo_stack[1])
    /\ Lines(Buf) # Lines(entry.buf)

\* (l1, c1) is not after (l2, c2) in document order
LexLE(l1, c1, l2, c2) == l1 < l2 \/ (l1 = l2 /\ c1 <= c2)

BoundsOrdered(bd) == LexLE(bd[1], bd[2], bd[3], bd[4])

\* the selection mark anchored at p with its floating end at q
Marked(sel, p, q) == set_end(set_start(sel, p[1], p[2]), q[1], q[2])

\* C30: whenever has_selection() is true get_bounds() returns bounds with
\* (start_line, start_col) <= (end_line, end_col) in document order, the
\* same whichever endpoint is the anchor; when the anchor and the floating
\* end coincide has_selection() is false.
C30_BoundsNormalized ==
    /\ has_selection(selection) => BoundsOrdered(get_bounds(selection))
    /\ Anchor(Buf) = Floating(Buf) => ~has_selection(selection)
    /\ \A p \in Positions(Buf) : \A q \in Positions(Buf) :
          /\ has_selection(Marked(selection, p, q)) <=> p # q
          /\ p # q =>
                /\ BoundsOrdered(get_bounds(Marked(selection, p, q)))
                /\ get_bounds(Marked(selection, p, q)) =
                     get_bounds(Marked(selection, q, p))

\* a selection dragged backwards over a line break of an edited document
C30_Witness ==
    /\ has_selection(selection)
    /\ selection.start_line > selection.end_line
    /\ selection.start_col < selection.end_col
    /\ last_op.name = "set_cursor"
    /\ ops > 0

IsUtf16(enc) == enc \in { "utf-16le", "utf-16be" }

\* a UTF-16 byte-order marker opens the bytes
HasUtf16Marker(bytes) == startswith(bytes, BOM_LE) \/ startswith(bytes, BOM_BE)

\* where the scan of an indexed file starts
ScanStart == IF IsUtf16(encoding) /\ HasUtf16Marker(mm) THEN 2 ELSE 0

\* C21: after index_file on a mapped file the offset table is strictly
\* increasing, starts at the scan start (0, or 2 behind a UTF-16 byte-order
\* marker), ends at the file length even when the last line has no
\* terminator, and total_lines() = len(offsets) - 1.
C21_OffsetTableShape ==
    last_op.name = "index_file" =>
        /\ Len(index) >= 1
        /\ \A i \in 1..(Len(index) - 1) : index[i] < index[i + 1]
        /\ index[1] = ScanStart
        /\ index[Len(index)] = Len(mm)
        /\ index_total_lines(index) = Len(index) - 1
        /\ index_total_lines(index) >= 0

\* a marked UTF-16 file of several lines, the last one unterminated, indexed
C21_Witness ==
    /\ last_op.name = "index_file"
    /\ IsUtf16(encoding)
    /\ index[1] = 2
    /\ Len(index) >= 3
    /\ mm[Len(mm)] = 5

\* the positions right after the line-feed code units of the 16-bit file
LineFeedEnds ==
    { ScanStart + 2 * k + 2 : k \in { j \in 0..Len(mm) :
        /\ ScanStart + 2 * j + 2 <= Len(mm)
        /\ SubSeq(mm, ScanStart + 2 * j + 1, ScanStart + 2 * j + 2)
             = newline_bytes(encoding) } }

\* C22: for a 16-bit encoded file the interior offsets of the index are
\* exactly the positions right after each line-feed code unit: every
\* recorded line start lies at an even distance from the scan start, and a
\* byte pair equal to the line-feed marker that straddles two code units
\* produces no line break.
C22_Utf16BreaksOnCodeUnits ==
    (last_op.name = "index_file" /\ IsUtf16(encoding)) =>
        /\ \A i \in 1..(Len(index) - 1) : (index[i] - ScanStart) % 2 = 0
        /\ { index[i] : i \in 2..Len(index) } \ { Len(mm) } = LineFeedEnds \ { Len(mm) }

HasMarker(bytes) ==
    startswith(bytes, BOM_LE) \/ startswith(bytes, BOM_BE) \/ startswith(bytes, BOM_UTF8)

\* zero bytes at odd positions make up more than 40% of the byte pairs
MostlyZeroAtOdd(bytes) == 10 * zeros_at(bytes, 1) * 2 > 4 * Len(bytes)

\* what C23 states of the encoding detected for a sample
DetectedAsStated(bytes, enc) ==
    /\ startswith(bytes, BOM_LE) => enc = "utf-16le"
    /\ startswith(bytes, BOM_BE) => enc = "utf-16be"
    /\ startswith(bytes, BOM_UTF8) => enc = "utf-8-sig"
    /\ (~HasMarker(bytes) /\ MostlyZeroAtOdd(bytes)) => enc = "utf-16le"

\* C23: a sample starting with FF FE is detected as utf-16le, FE FF as
\* utf-16be and EF BB BF as utf-8-sig, whatever zero bytes follow; every
\* sample without a marker whose zero bytes at odd positions exceed 40% of
\* its byte pairs is detected as utf-16le.
C23_EncodingDetection == DetectedAsStated(Prefix(mm, PeekSize), encoding)

\* the least m with m * b >= a
CeilDiv(a, b) == CHOOSE m \in 0..a : m * b >= a /\ (m = 0 \/ (m - 1) * b < a)

\* the wrap counts of the lines chunk i (from 1) covers
ChunkLines(i) ==
    { l \in 0..(Len(counts) - 1) : (i - 1) * chunk_size <= l /\ l < i * chunk_size }

RECURSIVE SumOver(_)
SumOver(ls) ==
    IF ls = {} THEN 0
    ELSE LET l == CHOOSE x \in ls : TRUE IN counts[l + 1] + SumOver(ls \ { l })

\* C24: after any sequence of update, insert and delete calls the grand
\* total is the sum of all per-line wrap counts, there are
\* ceil(line count / chunk size) chunks, and each chunk's cached sum is the
\* sum of the counts of the lines it covers.
C24_ChunkSumsConsistent ==
    /\ total_visual_lines = SumOver(0..(Len(counts) - 1))
    /\ Len(chunk_sums) = CeilDiv(Len(counts), chunk_size)
    /\ \A i \in 1..Len(chunk_sums) : chunk_sums[i] = SumOver(ChunkLines(i))

\* an update after a structural change, in a document of several chunks
\* whose last chunk is not full
C24_Witness ==
    /\ ops = 2
    /\ last_op.name = "update"
    /\ Len(chunk_sums) >= 3
    /\ Len(counts) % chunk_size # 0
    /\ Len(counts) \notin InitialLines
    /\ \E i \in 1..Len(chunk_sums) : chunk_sums[i] > 255

\* ten lines of count 1 with line 5 updated to 3
TenLinesOneWrapped == [ i \in 1..10 |-> IF i = 6 THEN 3 ELSE 1 ]

\* C25: visual_offset(logical_line) is the sum of the wrap counts of the
\* lines before logical_line: 0 for logical_line <= 0 and the grand total
\* for logical_line >= line count, whichever chunk the line falls in.  Ten
\* lines of count 1 give visual_offset(5) = 5, and after update(5, 3)
\* visual_offset(6) = 8 with grand total 12.
C25_VisualOffsetIsPrefixSum ==
    /\ \A l \in -2..(Len(counts) + 2) :
          get_visual_offset(Vm, l) = SumOver(0..(Min(l, Len(counts)) - 1))
    /\ \A l \in -2..0 : get_visual_offset(Vm, l) = 0
    /\ \A l \in Len(counts)..(Len(counts) + 2) :
          get_visual_offset(Vm, l) = get_total_visual_lines(Vm)
    /\ get_visual_offset(VisualLineManager(10, chunk_size), 5) = 5
    /\ get_visual_offset(update(VisualLineManager(10, chunk_size), 5, 3), 6) = 8
    /\ get_total_visual_lines(update(VisualLineManager(10, chunk_size), 5, 3)) = 12
    /\ counts = TenLinesOneWrapped =>
          /\ get_visual_offset(Vm, 5) = 5
          /\ get_visual_offset(Vm, 6) = 8
          /\ get_total_visual_lines(Vm) = 12

\* update(5, 3) made on ten lines split into several chunks
C25_Witness ==
    /\ ops = 1
    /\ last_op.name = "update"
    /\ counts = TenLinesOneWrapped
    /\ chunk_size = SmallChunk
    /\ Len(chunk_sums) > 1

\* C26: on a non-empty manager, for every logical line l and every k with
\* 0 <= k < count(l), logical_position(visual_offset(l) + k) = (l, k),
\* also for the lines at a chunk boundary.
C26_PositionInvertsOffset ==
    \A l \in 0..(Len(counts) - 1) : \A k \in 0..(counts[l + 1] - 1) :
        get_logical_position(Vm, get_visual_offset(Vm, l) + k) = << l, k >>

\* wrapped lines on both sides of a chunk boundary, after a structural change
C26_Witness ==
    /\ ops = 2
    /\ chunk_size = SmallChunk
    /\ Len(counts) > 2 * chunk_size
    /\ Len(counts) \notin InitialLines
    /\ counts[chunk_size] > 1
    /\ counts[chunk_size + 1] > 1
    /\ counts[2 * chunk_size + 1] > 1

\* wrap counts reported by a layout: none, negative, ordinary, and around
\* the cap
AnyCounts == WrapCounts \cup { -7, 1, 2, 254, 255, 256 }

\* the count stored for a reported count c
Stored(c) == IF c < 1 THEN 1 ELSE IF c > 255 THEN 255 ELSE c

\* C27: every stored wrap count is between 1 and 255 in every reachable
\* state: update(line, c) and insert(at, n, c) store min(255, max(1, c)) for
\* any integer c, and the grand total changes by the clamped value.
C27_CountsClamped ==
    /\ \A i \in 1..Len(counts) : 1 <= counts[i] /\ counts[i] <= 255
    /\ \A c \in AnyCounts :
          /\ \A l \in 0..(Len(counts) - 1) :
                /\ update(Vm, l, c).counts[l + 1] = Stored(c)
                /\ update(Vm, l, c).total_visual_lines
                     = total_visual_lines + Stored(c) - counts[l + 1]
          /\ \A l \in 0..Len(counts) : \A n \in 1..2 :
                /\ \A i \in 1..n : insert(Vm, l, n, c).counts[l + i] = Stored(c)
                /\ insert(Vm, l, n, c).total_visual_lines
                     = total_visual_lines + n * Stored(c)

\* counts reported above the cap and below 1, stored by insert and update
C27_Witness ==
    /\ ops = 2
    /\ last_op.name = "update"
    /\ \E i \in 1..Len(counts) : counts[i] = 255
    /\ Len(counts) \notin InitialLines
    /\ total_visual_lines = 2 * 255 + Len(counts) - 2

\* the manager nv is vm with n lines of count c added at positions
\* at..at+n-1: the lines before at keep their counts, every former line
\* i >= at is found at i+n, and the grand total is n times c higher
InsertAdds(vm, nv, at, n, c) ==
    /\ Len(nv.counts) = Len(vm.counts) + n
    /\ \A i \in 0..(at - 1) : nv.counts[i + 1] = vm.counts[i + 1]
    /\ \A i \in at..(at + n - 1) : nv.counts[i + 1] = c
    /\ \A i \in at..(Len(vm.counts) - 1) : nv.counts[i + n + 1] = vm.counts[i + 1]
    /\ nv.total_visual_lines = vm.total_visual_lines + n * c

\* C28 as stated: insert(at, n, c) with 0 <= at <= line count adds n lines
\* of count c at positions at..at+n-1, leaves the count of every line before
\* at unchanged, moves every former line i >= at to position i+n, and raises
\* the grand total by n times c.
C28_InsertAddsCountC ==
    \A at \in 0..Len(counts) : \A n \in 0..2 : \A c \in AnyCounts :
        InsertAdds(Vm, insert(Vm, at, n, c), at, n, c)

\* C28: insert(at, n, c) with 0 <= at <= line count and n >= 0 adds n lines
\* of count min(255, max(1, c)) at positions at..at+n-1, leaves the count of
\* every line before at unchanged, moves every former line i >= at to
\* position i+n, and raises the grand total by n times that clamped count;
\* with n < 0 the index is unchanged.
C28_InsertAddsClamped ==
    \A at \in 0..Len(counts) : \A c \in AnyCounts :
        /\ \A n \in 0..2 : InsertAdds(Vm, insert(Vm, at, n, c), at, n, Stored(c))
        /\ \A n \in { -2, -1 } : insert(Vm, at, n, c) = Vm

\* two lines reported with 300 wraps inserted in front of a wrapped line of
\* a ten-line document
C28_Witness ==
    /\ ops = 2
    /\ last_op.name = "insert"
    /\ Len(counts) = 12
    /\ \E at \in 1..9 :
          /\ counts[at] = 1
          /\ counts[at + 1] = 255 /\ counts[at + 2] = 255
          /\ counts[at + 3] = 3
    /\ total_visual_lines = 9 + 3 + 2 * 255

\* the manager nv is vm without the lines at..end-1: the lines before at
\* keep their counts, every line from end on is found end-at places earlier,
\* and the grand total is lower by the sum of the removed counts
DeleteRemoves(vm, nv, at, end) ==
    /\ Len(nv.counts) = Len(vm.counts) - (end - at)
    /\ \A i \in 0..(at - 1) : nv.counts[i + 1] = vm.counts[i + 1]
    /\ \A i \in end..(Len(vm.counts) - 1) :
          nv.counts[i - (end - at) + 1] = vm.counts[i + 1]
    /\ nv.total_visual_lines
         = vm.total_visual_lines - SumOver(at..(end - 1))

\* C29: delete(at, n) with at >= 0 and n > 0 removes exactly the lines
\* at..min(at+n, line count)-1, keeps the counts of all remaining lines in
\* their relative order, and lowers the grand total by the sum of the
\* removed counts; with at < 0 or n <= 0 the index is unchanged.
C29_DeleteRemovesRange ==
    \A at \in (-2)..(Len(counts) + 1) : \A n \in (-1)..3 :
        IF at < 0 \/ n <= 0
        THEN delete(Vm, at, n) = Vm
        ELSE DeleteRemoves(Vm, delete(Vm, at, n), Min(at, Len(counts)),
                           Min(at + n, Len(counts)))

\* two unwrapped lines deleted from a ten-line document that keeps a line
\* wrapped at the cap
C29_Witness ==
    /\ ops = 2
    /\ last_op.name = "delete"
    /\ chunk_size = SmallChunk
    /\ Len(counts) = 8
    /\ \E i \in 1..8 : counts[i] = 255
    /\ total_visual_lines = 7 + 255

\* the encodings detect_encoding names
Encodings == { "utf-8", "utf-8-sig", "utf-16le", "utf-16be" }

\* C34: detect_encoding returns exactly one of utf-8, utf-8-sig, utf-16le,
\* utf-16be for every byte sample of length 0 to 4096, without raising,
\* including the empty sample and samples shorter than 4 bytes.
C34_DetectEncodingTotal ==
    last_op.name = "detect_encoding" => encoding \in Encodings

\* C32: whenever add_command accepts a command outside replay, whether it
\* is pushed or merged into the top of the undo stack, the redo stack is
\* empty afterwards.
C32_AcceptedCommandClearsRedo ==
    last_op.name = "add_command" => redo_stack = << >>

\* the identities of the command objects on a stack
Ids(stack) == { stack[i].id : i \in 1..Len(stack) }

\* C33: in every reachable state of an UndoStack, len(undo_stack) +
\* len(redo_stack) <= max_size, and no command object is on both stacks at
\* once.
C33_StacksBoundedAndDisjoint ==
    /\ Len(undo_stack) + Len(redo_stack) <= SmallStack.max_size
    /\ Ids(undo_stack) \cap Ids(redo_stack) = {}

\* a full stack split between the undo and the redo stack by an undo()
C33_Witness ==
    /\ last_op.name = "undo" /\ pc = "idle"
    /\ undo_stack # << >> /\ redo_stack # << >>
    /\ Len(undo_stack) + Len(redo_stack) = SmallStack.max_size

\* the commands add_command may be handed, the deletions also as
\* DeleteCommand constructs them by default (restore_selection=True)
MergeCandidates ==
    NextCommands \cup { [ c EXCEPT !.restore_selection = TRUE ] :
                            c \in { d \in NextCommands : d.kind = "Delete" } }

\* on the buffer nb, which holds the edits of top and then cmd: undoing
\* merged leaves the lines that undoing cmd and then top leaves, and from
\* there redoing merged leaves the lines that redoing top and then cmd leaves
MergedActsAsPair(top, cmd, merged, nb) ==
    /\ Lines(command_undo(merged, nb)) = Lines(command_undo(top, command_undo(cmd, nb)))
    /\ Lines(command_redo(merged, command_undo(merged, nb)))
         = Lines(command_redo(cmd, command_redo(top, command_undo(merged, nb))))

\* C31: whenever add_command merges a new command into the top of the undo
\* stack, undoing the merged command has the same effect on the buffer's
\* lines as undoing the two original commands one after the other in
\* reverse order, and redoing it has the same effect as redoing them in
\* order.
C31_MergedCommandActsAsPair ==
    (pc = "idle" /\ undo_stack # << >>) =>
        \A cmd \in MergeCandidates :
            merge_into_top(SmallStack, cmd)[1] =>
                MergedActsAsPair(Top(undo_stack), cmd,
                                 Top(merge_into_top(SmallStack, cmd)[2].undo_stack),
                                 command_redo(cmd, Buf))

\* C35: for a buffer holding at least one line, after load and after any
\* sequence of set_cursor, insert_text, insert_newline, backspace,
\* delete_key, delete_selection and select_all, the cursor is inside the
\* document: 0 <= cursor_line <= total()-1 and
\* 0 <= cursor_col <= len(get_line(cursor_line)).
C35_CursorInsideDocument ==
    /\ 0 <= cursor_line /\ cursor_line <= total(Buf) - 1
    /\ 0 <= cursor_col /\ cursor_col <= Len(get_line(Buf, cursor_line))

\* the cursor on the last line of a document grown by two calls, the second
\* a line break
C35_Witness ==
    /\ ops = 2
    /\ last_op.name = "insert_newline"
    /\ total(Buf) >= 3
    /\ cursor_line = total(Buf) - 1
    /\ cursor_col = 0

\* C36: insert_newline() is equivalent to insert_text("\n") from every
\* buffer state, including states with an active selection: both leave the
\* same total(), the same content for every logical line and the same
\* cursor position.
C36_NewlineIsInsertedText ==
    Snapshot(insert_newline(Buf)) = Snapshot(insert_text(Buf, << NL >>))

\* C37: during a drag (start_drag at position A, then any sequence of
\* update_drag calls, then end_drag) the selection anchor stays at A and the
\* floating end equals the most recent clamped drag position; dragging away
\* from A and back onto A leaves no selection, and update_drag outside a
\* drag changes nothing.
C37_DragKeepsAnchor ==
    /\ ctrl.drag_start_line # -1 =>
          /\ Anchor(Buf) = << ctrl.drag_start_line, ctrl.drag_start_col >>
          /\ Floating(Buf) = Cursor(Buf)
          /\ Cursor(Buf) = Anchor(Buf) => ~has_selection(selection)
    /\ ~ctrl.dragging =>
          \A ln \in LineArgs(Buf) : \A col \in ColArgs(Buf, ln) :
              update_drag(ctrl, Buf, ln, col) = Buf

\* C38: for a search started with search_async with chunk_size >= 1: if the
\* returned cancel function is never called, on_complete is eventually
\* called exactly once, after the last on_progress; once cancel has been
\* called, neither on_progress nor on_complete is called again.
C38_SearchCompletesOnceUnlessCancelled ==
    /\ [](search.complete_calls <= 1)
    /\ [][search.complete_calls = 1 =>
            search'.progress_calls = search.progress_calls]_vars
    /\ [][search.cancelled =>
            /\ search'.progress_calls = search.progress_calls
            /\ search'.complete_calls = search.complete_calls]_vars
    /\ search.started ~> (search.cancelled \/ search.complete_calls = 1)

\* a search over three lines completed after two chunks, with a match
C38_Witness ==
    /\ search.complete_calls = 1
    /\ search.progress_calls = 2
    /\ ~search.cancelled
    /\ Len(search.matches) = 1
    /\ search.total_lines = 3

\* C39: when a file is opened, the buffer is loaded with the index only
\* after index_file has returned: in no interleaving of the worker with the
\* main loop does buffer.load receive, or get_line read, an offset table
\* that is still being appended to, and if indexing raises the buffer is
\* never loaded and the loading dialog is closed.
C39_LoadedAfterIndexing ==
    /\ [](opening.loaded =>
            /\ opening.thread = "returned"
            /\ ~opening.loaded_while_indexing
            /\ ~opening.read_while_indexing
            /\ opening.table_at_load = index_file(mm, encoding)
            /\ index = opening.table_at_load)
    /\ [](opening.thread = "raised" => ~opening.loaded)
    /\ (opening.thread = "raised") ~> (opening.dialog = "closed")
    /\ (opening.thread = "returned") ~> (opening.loaded /\ opening.dialog = "closed")

\* a file of three lines loaded and drawn after the worker returned
C39_Witness ==
    /\ last_op.name = "get_line"
    /\ opening.loaded
    /\ opening.dialog = "closed"
    /\ Len(opening.table_at_load) = 4
    /\ opening.idle = << >>

\* C2: applying a sequence S of recorded mutating calls and then calling
\* undo() len(S) times restores the pre-S line count, the content of every
\* line and the cursor position.
C2_UndoRestoresPreState ==
    (ops > 0 /\ undone_run = ops) => Snapshot(Buf) = pre_state

====
